---- MODULE Spec2Model ----
(***************************************************************************)
(* A model of tilth's outline pipeline (src/src/read/outline/code.rs) and  *)
(* of the symbol search that consumes its entries.                         *)
(*                                                                         *)
(* The syntax tree is an input: tree-sitter builds it.  A node is a record *)
(*   [kind, field, text, srow, erow, kids, uses]                           *)
(* kind  : the grammar's node kind          (node.kind())                  *)
(* field : the field name under which the parent holds it ("" for none)    *)
(* text  : the node's text on its first row (what node_text slices)        *)
(* srow, erow : 0-based start and end rows  (start_position/end_position)  *)
(* kids  : the children, in document order                                 *)
(* uses  : identifiers the node's source text mentions, as <<name, row>>   *)
(* The trees the model draws obey tree-sitter's contract: a child lies     *)
(* inside its parent, siblings follow each other in document order, and    *)
(* every node other than the root ends on a row of the source.             *)
(***************************************************************************)
EXTENDS Integers, Sequences, FiniteSets, TLC

\* Largest number of top-level chunks of a drawn source file.
MaxTop == 2
\* Largest max_lines argument tried (0..MaxCap).
MaxCap == 2
\* Largest line count of a source in a language without grammar.
MaxPlain == 3

VARIABLES
    pc,         \* position inside outline() / inside the symbol search
    lang,       \* the language tag of the source
    content,    \* content.lines(): the source as a sequence of line numbers
    tree,       \* the root node tree-sitter returns for content
    env,        \* what the parser does: "ok", "set_language_failed", "parse_failed"
    path,       \* the path argument: "NoPath", "NoStem" or the file stem
    max_lines,  \* the max_lines argument
    walked,     \* the entries walk_top_level returned
    entries,    \* the local `entries` of outline()
    result,     \* the string outline() returns, as a sequence of output blocks
    query,      \* symbol search: the query identifier
    files,      \* symbol search: the files in scope, in traversal order
    outlines,   \* symbol search: the outline entries of the files read so far
    defs,       \* symbol search: the definition records
    usages,     \* symbol search: the usage records
    ranked,     \* symbol search: the ranked result list
    host,       \* install: the host argument of run()
    platform,   \* install: target OS and whether its home variable is set
    disk,       \* install: the config file and its parent directory
    config_path,\* install: the local `config_path` of run()
    config,     \* install: the local `config` of run()
    ret,        \* install: what run() returned, <<>> while it runs
    hist,       \* install: the disk before the run, the file operations done,
                \*          the file content after each successful run
    import_text,\* imports: the `text` argument of extract_import_source
    source,     \* imports: its result, <<>> before the call
    resource,   \* imports: the result of applying it to its own result
    group,      \* imports: the import texts handed to format_imports
    summary,    \* imports: the summary line it returns, <<>> before the call
    hasher,     \* the RandomState of the HashMap inside format_imports
    earlier,    \* what the earlier call of outline() with these arguments returned
    cursor,     \* format_entries: the index of the entry its loop is at, 0 outside
    out_lines,  \* format_entries: the local `out`
    pending,    \* format_entries: the local `import_groups`
    sig_line,   \* extract_signature: lines[start_row], <<>> when there is no such line
    sig_text    \* extract_signature: what it returns, <<>> before the call

vars == <<pc, lang, content, tree, env, path, max_lines, walked, entries, result,
          query, files, outlines, defs, usages, ranked,
          host, platform, disk, config_path, config, ret, hist,
          import_text, source, resource, group, summary, hasher, earlier,
          cursor, out_lines, pending, sig_line, sig_text>>

outlineVars == <<lang, content, tree, env, path, max_lines>>
searchVars == <<query, files, outlines, defs, usages, ranked>>
installVars == <<host, platform, disk, config_path, config, ret, hist>>
importVars == <<import_text, source, resource, group, summary>>
callVars == <<hasher, earlier>>
loopVars == <<cursor, out_lines, pending>>
sigVars == <<sig_line, sig_text>>

(***************************************************************************)
(* Language tags and the grammar registry                                  *)
(***************************************************************************)
GrammarLangs == {"Rust", "TypeScript", "Tsx", "JavaScript", "Python", "Go",
                 "Java", "C", "Cpp", "Ruby", "Haskell", "ReScript"}

NoGrammarLangs == {"Swift", "Kotlin", "CSharp", "Dockerfile", "Make"}

Lang == GrammarLangs \cup NoGrammarLangs

\* A registry that also hands out a grammar for Swift.
OutlineLanguageSwift(l) ==
    IF l \in {"Kotlin", "CSharp", "Dockerfile", "Make"}
    THEN <<>> ELSE <<l>>

\* outline_language: Some(grammar) as <<grammar>>, None as <<>>.
OutlineLanguage(l) ==
    CASE l = "Rust" -> <<"Rust">>
      [] l = "TypeScript" -> <<"TypeScript">>
      [] l = "Tsx" -> <<"Tsx">>
      [] l = "JavaScript" -> <<"JavaScript">>
      [] l = "Python" -> <<"Python">>
      [] l = "Go" -> <<"Go">>
      [] l = "Java" -> <<"Java">>
      [] l = "C" -> <<"C">>
      [] l = "Cpp" -> <<"Cpp">>
      [] l = "Ruby" -> <<"Ruby">>
      [] l = "Haskell" -> <<"Haskell">>
      [] l = "ReScript" -> <<"ReScript">>
      [] l \in {"Swift", "Kotlin", "CSharp", "Dockerfile", "Make"} -> <<>>

(***************************************************************************)
(* Syntax trees                                                            *)
(***************************************************************************)
Node(kind, field, text, srow, erow, kids, uses) ==
    [kind |-> kind, field |-> field, text |-> text, srow |-> srow,
     erow |-> erow, kids |-> kids, uses |-> uses]

Leaf(kind, field, text, row) == Node(kind, field, text, row, row, <<>>, {})

RECURSIVE Shift(_, _)
\* The node moved down by d rows.
Shift(n, d) ==
    [n EXCEPT !.srow = @ + d, !.erow = @ + d,
              !.kids = [i \in DOMAIN n.kids |-> Shift(n.kids[i], d)],
              !.uses = {<<u[1], u[2] + d>> : u \in n.uses}]

\* A chunk is a run of sibling nodes starting at row 0, with its height in rows.
Chunk(nodes, height) == [nodes |-> nodes, height |-> height]

\* fn f() { f() }: a function that calls itself on its second row.
ChunkFn ==
    Chunk(<<Node("function_item", "", "fn f() {", 0, 1,
                 <<Leaf("identifier", "name", "f", 0),
                   Node("block", "body", "{", 0, 1, <<>>, {})>>,
                 {<<"f", 0>>, <<"f", 1>>})>>, 2)

\* fn g() { f() }: a function that calls f.
ChunkCaller ==
    Chunk(<<Node("function_item", "", "fn g() {", 0, 1,
                 <<Leaf("identifier", "name", "g", 0),
                   Node("block", "body", "{", 0, 1, <<>>, {})>>,
                 {<<"g", 0>>, <<"f", 1>>})>>, 2)

ChunkUse == Chunk(<<Leaf("use_declaration", "", "use a::b;", 0)>>, 1)

ChunkComment == Chunk(<<Leaf("comment", "", "doc", 0)>>, 1)

\* class C { m() {}  class D { f() {} } }
ChunkClass ==
    Chunk(<<Node("class_declaration", "", "class C {", 0, 4,
                 <<Leaf("identifier", "name", "C", 0),
                   Node("class_body", "body", "{", 0, 4,
                        <<Node("method_definition", "", "m() {}", 1, 1,
                               <<Leaf("identifier", "name", "m", 1)>>, {<<"m", 1>>}),
                          Node("class_declaration", "", "class D {", 2, 3,
                               <<Leaf("identifier", "name", "D", 2),
                                 Node("class_body", "body", "{", 2, 3,
                                      <<Node("method_definition", "", "f() {}", 3, 3,
                                             <<Leaf("identifier", "name", "f", 3)>>,
                                             {<<"f", 3>>})>>,
                                      {})>>,
                               {<<"D", 2>>})>>,
                        {})>>,
                 {<<"C", 0>>})>>, 5)

\* import A / import qualified B as T, inside the grammar's `imports` wrapper.
ChunkHsImports ==
    Chunk(<<Node("imports", "", "import A", 0, 1,
                 <<Leaf("import", "", "import A", 0),
                   Leaf("import", "", "import qualified B as T", 1)>>, {})>>, 2)

\* f :: Int -> Int / f 0 = 0 / f n = f (n - 1) / g = f 1
ChunkHsDecls ==
    Chunk(<<Node("declarations", "", "f :: Int -> Int", 0, 3,
                 <<Node("signature", "", "f :: Int -> Int", 0, 0,
                        <<Leaf("variable", "name", "f", 0)>>, {<<"f", 0>>}),
                   Node("function", "", "f 0 = 0", 1, 2,
                        <<Leaf("variable", "name", "f", 1)>>,
                        {<<"f", 1>>, <<"f", 2>>}),
                   Node("bind", "", "g = f 1", 3, 3,
                        <<Leaf("variable", "name", "g", 3)>>,
                        {<<"g", 3>>, <<"f", 3>>})>>, {})>>, 4)

\* data T = A | B / instance Show T where show = f
ChunkHsTypes ==
    Chunk(<<Node("declarations", "", "data T = A | B", 0, 2,
                 <<Node("data_type", "", "data T = A | B", 0, 0,
                        <<Leaf("name", "name", "T", 0)>>, {<<"T", 0>>}),
                   Node("instance", "", "instance Show T where", 1, 2,
                        <<Leaf("name", "name", "Show", 1),
                          Leaf("type_patterns", "patterns", "T", 1),
                          Node("instance_declarations", "declarations", "show = f", 2, 2,
                               <<Node("bind", "", "show = f", 2, 2,
                                      <<Leaf("variable", "name", "show", 2)>>,
                                      {<<"f", 2>>})>>, {})>>,
                        {<<"T", 1>>})>>, {})>>, 3)

\* {-# LANGUAGE X #-}
ChunkHsPragma == Chunk(<<Leaf("pragma", "", "{-# LANGUAGE X #-}", 0)>>, 1)

\* let f = (x) => { <div> <Counter /> </div> }, a function body holding JSX.
LetWithJsx(name, row) ==
    Node("let_declaration", "", "let f = (x) => {", row, row + 2,
         <<Node("let_binding", "", "f = (x) => {", row, row + 2,
                <<Leaf("value_identifier", "pattern", name, row),
                  Node("function", "body", "(x) => {", row, row + 2,
                       <<Node("block", "body", "{", row, row + 2,
                              <<Node("jsx_element", "", "<div>", row + 1, row + 2,
                                     <<Node("jsx_opening_element", "", "<div>", row + 1, row + 1,
                                            <<Leaf("jsx_identifier", "", "div", row + 1)>>, {}),
                                       Node("jsx_self_closing_element", "", "<Counter />",
                                            row + 1, row + 1,
                                            <<Leaf("jsx_identifier", "", "Counter", row + 1)>>, {}),
                                       Node("jsx_closing_element", "", "</div>", row + 2, row + 2,
                                            <<Leaf("jsx_identifier", "", "div", row + 2)>>, {})>>,
                                     {})>>, {})>>, {})>>, {})>>,
         {<<name, row>>, <<name, row + 1>>})

\* @react.component / let f = ...
ChunkResComponent ==
    Chunk(<<Leaf("decorator", "", "@react.component", 0), LetWithJsx("f", 1)>>, 4)

\* let f = ... without the decorator.
ChunkResLet == Chunk(<<LetWithJsx("f", 0)>>, 3)

\* type f = A | B
ChunkResType ==
    Chunk(<<Node("type_declaration", "", "type f = A | B", 0, 0,
                 <<Node("type_binding", "", "f = A | B", 0, 0,
                        <<Leaf("type_identifier", "name", "f", 0)>>, {})>>,
                 {<<"f", 0>>})>>, 1)

\* open Belt
ChunkResOpen ==
    Chunk(<<Node("open_statement", "", "open Belt", 0, 0,
                 <<Leaf("module_identifier", "", "Belt", 0)>>, {})>>, 1)

\* let g = f, a plain value that mentions f.
ChunkResValue ==
    Chunk(<<Node("let_declaration", "", "let g = f", 0, 0,
                 <<Node("let_binding", "", "g = f", 0, 0,
                        <<Leaf("value_identifier", "pattern", "g", 0),
                          Leaf("value_identifier", "body", "f", 0)>>, {})>>,
                 {<<"g", 0>>, <<"f", 0>>})>>, 1)

\* @genType / let f = ...: a decorator other than @react.component.
ChunkResGenType ==
    Chunk(<<Leaf("decorator", "", "@genType", 0), LetWithJsx("f", 1)>>, 4)

\* @react.component / // note / let f = ...: a comment between the two.
ChunkResInterrupted ==
    Chunk(<<Leaf("decorator", "", "@react.component", 0),
            Leaf("comment", "", "// note", 1),
            LetWithJsx("f", 2)>>, 5)

\* module Outer = { let x = 1 }: the keyword, then the binding with its block.
ChunkResModule ==
    Chunk(<<Node("module_declaration", "", "module Outer = {", 0, 2,
                 <<Leaf("module", "", "module", 0),
                   Node("module_binding", "", "Outer = {", 0, 2,
                        <<Leaf("module_identifier", "name", "Outer", 0),
                          Node("block", "definition", "{", 0, 2,
                               <<Node("let_declaration", "", "let x = 1", 1, 1,
                                      <<Node("let_binding", "", "x = 1", 1, 1,
                                             <<Leaf("value_identifier", "pattern", "x", 1),
                                               Leaf("number", "body", "1", 1)>>, {})>>,
                                      {<<"x", 1>>})>>, {})>>, {})>>,
                 {<<"Outer", 0>>})>>, 3)

\* module Inner = { open Belt }
ChunkResModuleOpen ==
    Chunk(<<Node("module_declaration", "", "module Inner = {", 0, 2,
                 <<Leaf("module", "", "module", 0),
                   Node("module_binding", "", "Inner = {", 0, 2,
                        <<Leaf("module_identifier", "name", "Inner", 0),
                          Node("block", "definition", "{", 0, 2,
                               <<Node("open_statement", "", "open Belt", 1, 1,
                                      <<Leaf("module_identifier", "", "Belt", 1)>>, {})>>,
                               {})>>, {})>>,
                 {<<"Inner", 0>>})>>, 3)

\* from os import path
ChunkPyImport == Chunk(<<Leaf("import_statement", "", "from os import path", 0)>>, 1)

\* class C: / from os import path: an import in the body of a class.
ChunkPyClass ==
    Chunk(<<Node("class_definition", "", "class C:", 0, 1,
                 <<Leaf("identifier", "name", "C", 0),
                   Node("block", "body", "from os import path", 1, 1,
                        <<Leaf("import_statement", "", "from os import path", 1)>>, {})>>,
                 {<<"C", 0>>})>>, 2)

\* function App() { return <div /> }: JSX in a language other than ReScript.
ChunkJsxFn ==
    Chunk(<<Node("function_declaration", "", "function App() {", 0, 1,
                 <<Leaf("identifier", "name", "App", 0),
                   Node("statement_block", "body", "{", 0, 1,
                        <<Node("jsx_self_closing_element", "", "<div />", 1, 1,
                               <<Leaf("jsx_identifier", "", "div", 1)>>, {})>>, {})>>,
                 {<<"App", 0>>})>>, 2)

\* A `declarations` node that holds a binding and another `declarations` node
\* with a binding of its own.
ChunkHsNested ==
    Chunk(<<Node("declarations", "", "h = 1", 0, 1,
                 <<Node("bind", "", "h = 1", 0, 0,
                        <<Leaf("variable", "name", "h", 0)>>, {<<"h", 0>>}),
                   Node("declarations", "", "k = 2", 1, 1,
                        <<Node("bind", "", "k = 2", 1, 1,
                               <<Leaf("variable", "name", "k", 1)>>, {<<"k", 1>>})>>,
                        {})>>, {})>>, 2)

\* A `declarations` node holding a function, in a language other than Haskell.
ChunkDeclarations ==
    Chunk(<<Node("declarations", "", "fn w() {", 0, 1,
                 <<Node("function_item", "", "fn w() {", 0, 1,
                        <<Leaf("identifier", "name", "w", 0),
                          Node("block", "body", "{", 0, 1, <<>>, {})>>,
                        {<<"w", 0>>})>>, {})>>, 2)

\* @react.component / let g = () => { <> <A /> {<div> <B {...p} /> </div>}
\* <C x={<D />} /> </> }: siblings inside a fragment, an element under an
\* expression, an element inside the attribute of a self-closing element.
ChunkResFragment ==
    Chunk(<<Leaf("decorator", "", "@react.component", 0),
            Node("let_declaration", "", "let g = () => {", 1, 6,
                 <<Node("let_binding", "", "g = () => {", 1, 6,
                        <<Leaf("value_identifier", "pattern", "g", 1),
                          Node("function", "body", "() => {", 1, 6,
                               <<Node("block", "body", "{", 1, 6,
                                      <<Node("jsx_fragment", "", "<>", 2, 5,
                                             <<Node("jsx_self_closing_element", "", "<A />", 2, 2,
                                                    <<Leaf("jsx_identifier", "", "A", 2)>>, {}),
                                               Node("jsx_expression", "", "{<div>", 3, 4,
                                                    <<Node("jsx_element", "", "<div>", 3, 4,
                                                           <<Node("jsx_opening_element", "", "<div>", 3, 3,
                                                                  <<Leaf("jsx_identifier", "", "div", 3)>>, {}),
                                                             Node("jsx_self_closing_element", "",
                                                                  "<B {...p} />", 4, 4,
                                                                  <<Leaf("jsx_identifier", "", "B", 4),
                                                                    Node("jsx_expression", "", "{...p}", 4, 4,
                                                                         <<Leaf("spread_element", "", "...p", 4)>>,
                                                                         {})>>, {}),
                                                             Node("jsx_closing_element", "", "</div>", 4, 4,
                                                                  <<Leaf("jsx_identifier", "", "div", 4)>>, {})>>,
                                                           {})>>, {}),
                                               Node("jsx_self_closing_element", "", "<C x={<D />} />", 5, 5,
                                                    <<Leaf("jsx_identifier", "", "C", 5),
                                                      Node("jsx_attribute", "", "x={<D />}", 5, 5,
                                                           <<Node("jsx_expression", "", "{<D />}", 5, 5,
                                                                  <<Node("jsx_self_closing_element", "",
                                                                         "<D />", 5, 5,
                                                                         <<Leaf("jsx_identifier", "", "D", 5)>>,
                                                                         {})>>, {})>>, {})>>, {})>>,
                                             {})>>, {})>>, {})>>, {})>>,
                 {<<"g", 1>>})>>, 7)

\* const x = 1;
ChunkLexical ==
    Chunk(<<Node("lexical_declaration", "", "const x = 1;", 0, 0,
                 <<Leaf("const", "", "const", 0),
                   Node("variable_declarator", "", "x = 1", 0, 0,
                        <<Leaf("identifier", "name", "x", 0),
                          Leaf("number", "value", "1", 0)>>, {})>>,
                 {<<"x", 0>>})>>, 1)

\* class { }: the parser recovers by putting a zero-width (missing) identifier
\* where the name belongs.
ChunkNoName ==
    Chunk(<<Node("class_declaration", "", "class {", 0, 1,
                 <<Leaf("identifier", "name", "", 0),
                   Node("class_body", "body", "{", 0, 1, <<>>, {})>>,
                 {})>>, 2)

\* interface I { } / type A = number
ChunkTsTypes ==
    Chunk(<<Node("interface_declaration", "", "interface I {", 0, 1,
                 <<Leaf("type_identifier", "name", "I", 0),
                   Node("interface_body", "body", "{", 0, 1, <<>>, {})>>,
                 {<<"I", 0>>}),
            Node("type_alias_declaration", "", "type A = number;", 2, 2,
                 <<Leaf("type_identifier", "name", "A", 2)>>, {<<"A", 2>>})>>, 3)

\* The chunks a source of the language may hold.
ChunksOf(l) ==
    CASE l = "Haskell" -> {ChunkHsImports, ChunkHsDecls, ChunkHsTypes, ChunkHsPragma,
                           ChunkHsNested}
      [] l = "ReScript" -> {ChunkResComponent, ChunkResLet, ChunkResType,
                            ChunkResOpen, ChunkResValue, ChunkResGenType,
                            ChunkResInterrupted, ChunkResModule, ChunkResFragment,
                       ChunkResModuleOpen}
      [] l \in NoGrammarLangs -> {}
      [] l \in {"TypeScript", "Tsx", "JavaScript"} ->
            {ChunkClass, ChunkJsxFn, ChunkTsTypes, ChunkLexical, ChunkNoName}
      [] l = "Python" -> {ChunkPyImport, ChunkPyClass, ChunkComment}
      [] OTHER -> {ChunkFn, ChunkCaller, ChunkUse, ChunkComment, ChunkDeclarations}

ChunkSeqs(l, n) == UNION {[1..k -> ChunksOf(l)] : k \in 0..n}

RECURSIVE Place(_, _, _)
\* The nodes of chunks i.. of cs, the first placed at row `row`.
Place(cs, i, row) ==
    IF i > Len(cs) THEN <<>>
    ELSE [k \in DOMAIN cs[i].nodes |-> Shift(cs[i].nodes[k], row)]
         \o Place(cs, i + 1, row + cs[i].height)

RECURSIVE Height(_, _)
Height(cs, i) == IF i > Len(cs) THEN 0 ELSE cs[i].height + Height(cs, i + 1)

\* The root node of a source made of the chunks cs.
RootOf(cs) ==
    Node("source_file", "", "", 0, Height(cs, 1), Place(cs, 1, 0), {})

\* content.lines() of a source of n lines.
LinesOf(n) == [i \in 1..n |-> i]

(***************************************************************************)
(* Node -> entry mapper                                                    *)
(***************************************************************************)
\* Option values: None is <<>>, Some(v) is <<v>>.
OrElse(opt, default) == IF opt = <<>> THEN default ELSE opt[1]

\* node_text: the node's text on its first row, "" for a row past the source.
NodeText(n, lines) == IF n.srow < Len(lines) THEN n.text ELSE ""

\* node.child_by_field_name(f): the first child held under the field f.
ChildByFieldName(n, f) ==
    LET s == SelectSeq(n.kids, LAMBDA k : k.field = f)
    IN  IF s = <<>> THEN <<>> ELSE <<s[1]>>

\* find_child_text
FindChildText(n, f, lines) ==
    LET c == ChildByFieldName(n, f)
    IN  IF c = <<>> THEN <<>> ELSE <<NodeText(c[1], lines)>>

\* first_child_by_kind
FirstChildByKind(n, kind, lines) ==
    LET s == SelectSeq(n.kids, LAMBDA k : k.kind = kind)
    IN  IF s = <<>> THEN <<>> ELSE <<NodeText(s[1], lines)>>

\* Kind names that contain "identifier".
IdentifierKinds == {"identifier", "type_identifier", "property_identifier",
                    "value_identifier", "module_identifier", "jsx_identifier",
                    "shorthand_property_identifier"}

\* Kind names that contain "identifier", "name" or "declarator".
IdentifierLikeKinds == IdentifierKinds \cup {"name", "variable_declarator", "init_declarator"}

RECURSIVE FirstIdentifierFrom(_, _, _)
\* first_identifier_text: the loop over the children from the i-th on.
FirstIdentifierFrom(n, lines, i) ==
    IF i > Len(n.kids) THEN <<>>
    ELSE LET child == n.kids[i]
             inner == SelectSeq(child.kids, LAMBDA g : g.kind \in IdentifierKinds
                                                       /\ NodeText(g, lines) # "")
         IN  IF child.kind \in IdentifierLikeKinds
             THEN IF NodeText(child, lines) # "" THEN <<NodeText(child, lines)>>
                  ELSE IF inner # <<>> THEN <<NodeText(inner[1], lines)>>
                  ELSE FirstIdentifierFrom(n, lines, i + 1)
             ELSE FirstIdentifierFrom(n, lines, i + 1)

\* first_identifier_text
FirstIdentifierText(n, lines) == FirstIdentifierFrom(n, lines, 1)

\* The first child of the given kind, as a node.
FirstKidOfKind(n, kind) ==
    LET s == SelectSeq(n.kids, LAMBDA k : k.kind = kind)
    IN  IF s = <<>> THEN <<>> ELSE <<s[1]>>

\* A binding-name lookup that expects the type name directly under the
\* declaration and not inside its type_binding.
RescriptBindingNameFlat(n, lines) ==
    CASE n.kind = "let_declaration" ->
            LET b == FirstKidOfKind(n, "let_binding")
            IN  IF b = <<>> THEN <<>>
                ELSE IF FindChildText(b[1], "pattern", lines) # <<>>
                     THEN FindChildText(b[1], "pattern", lines)
                     ELSE FindChildText(b[1], "name", lines)
      [] n.kind = "type_declaration" -> FirstChildByKind(n, "type_identifier", lines)
      [] n.kind = "module_declaration" ->
            LET b == FirstKidOfKind(n, "module_binding")
            IN  IF b = <<>> THEN <<>> ELSE FindChildText(b[1], "name", lines)
      [] n.kind = "external_declaration" -> FirstChildByKind(n, "value_identifier", lines)
      [] n.kind = "exception_declaration" -> FirstChildByKind(n, "variant_identifier", lines)
      [] n.kind = "open_statement" -> FirstChildByKind(n, "module_identifier", lines)
      [] OTHER -> <<>>

\* rescript_binding_name
RescriptBindingName(n, lines) ==
    CASE n.kind = "let_declaration" ->
            LET b == FirstKidOfKind(n, "let_binding")
            IN  IF b = <<>> THEN <<>>
                ELSE IF FindChildText(b[1], "pattern", lines) # <<>>
                     THEN FindChildText(b[1], "pattern", lines)
                     ELSE FindChildText(b[1], "name", lines)
      [] n.kind = "type_declaration" ->
            LET b == FirstKidOfKind(n, "type_binding")
            IN  IF b = <<>> THEN <<>> ELSE FindChildText(b[1], "name", lines)
      [] n.kind = "module_declaration" ->
            LET b == FirstKidOfKind(n, "module_binding")
            IN  IF b = <<>> THEN <<>> ELSE FindChildText(b[1], "name", lines)
      [] n.kind = "external_declaration" -> FirstChildByKind(n, "value_identifier", lines)
      [] n.kind = "exception_declaration" -> FirstChildByKind(n, "variant_identifier", lines)
      [] n.kind = "open_statement" -> FirstChildByKind(n, "module_identifier", lines)
      [] OTHER -> <<>>

RECURSIVE LetIsFunctionFrom(_, _)
\* The loop of rescript_let_is_function from child i on: the first let_binding
\* with a body decides; a let_binding without body is passed over.
LetIsFunctionFrom(n, i) ==
    IF i > Len(n.kids) THEN FALSE
    ELSE IF n.kids[i].kind = "let_binding" /\ ChildByFieldName(n.kids[i], "body") # <<>>
         THEN ChildByFieldName(n.kids[i], "body")[1].kind \in {"function", "arrow_function"}
         ELSE LetIsFunctionFrom(n, i + 1)

\* rescript_let_is_function
RescriptLetIsFunction(n) == LetIsFunctionFrom(n, 1)

\* A start line that forgets the rows are 0-based.
StartLineRow(n) == n.srow

\* start_line of node_to_entry: the 1-based line of the node's first row.
StartLine(n) == n.srow + 1

\* An end line that stops at the node's first row.
EndLineFirstRow(n) == n.srow + 1

\* end_line of node_to_entry: the 1-based line of the node's last row.
EndLine(n) == n.erow + 1

\* extract_signature: the text cut from the source line of the start row, kept
\* here as the number of that line; 0 stands for the empty string of a row
\* past the source.
ExtractSignature(n, lines) ==
    IF n.srow < Len(lines) THEN [line |-> lines[n.srow + 1]] ELSE [line |-> 0]

\* Kind names that contain "comment" or "doc".
CommentOrDocKinds == {"comment", "line_comment", "block_comment", "doc_comment"}

\* extract_doc: the text of a preceding comment sibling; node texts of comment
\* nodes stand for the text left after the comment markers are stripped.
ExtractDoc(prev, lines) ==
    IF prev = <<>> THEN <<>>
    ELSE IF prev[1].kind \in CommentOrDocKinds /\ NodeText(prev[1], lines) # ""
         THEN <<NodeText(prev[1], lines)>>
         ELSE <<>>

\* The match of node_to_entry: None, or Some of (kind, name, signature).
KindNameSignature(n, lines, l) ==
    LET k == n.kind
        named(kind, field, dflt, sig) ==
            <<[kind |-> kind, name |-> OrElse(FindChildText(n, field, lines), dflt),
               signature |-> sig]>>
        sigOf == <<ExtractSignature(n, lines)>>
    IN
    CASE k \in {"function_declaration", "function_definition", "function_item",
                "method_definition", "method_declaration"} ->
            <<[kind |-> "Function",
               name |-> OrElse(FindChildText(n, "name", lines),
                               OrElse(FindChildText(n, "identifier", lines), "<anonymous>")),
               signature |-> sigOf]>>
      [] k \in {"class_declaration", "class_definition"} ->
            <<[kind |-> "Class",
               name |-> OrElse(FindChildText(n, "name", lines),
                               OrElse(FindChildText(n, "identifier", lines), "<anonymous>")),
               signature |-> <<>>]>>
      [] k \in {"struct_item", "struct_declaration"} -> named("Struct", "name", "<anonymous>", <<>>)
      [] k \in {"interface_declaration", "type_alias_declaration"} ->
            named("Interface", "name", "<anonymous>", <<>>)
      [] k = "type_item" -> named("TypeAlias", "name", "<anonymous>", <<>>)
      [] k \in {"enum_item", "enum_declaration"} -> named("Enum", "name", "<anonymous>", <<>>)
      [] k = "impl_item" ->
            <<[kind |-> "Module",
               name |-> "impl " \o OrElse(FindChildText(n, "type", lines), "<impl>"),
               signature |-> <<>>]>>
      [] k \in {"const_item", "static_item"} -> named("Constant", "name", "<const>", <<>>)
      [] k \in {"lexical_declaration", "variable_declaration"} ->
            <<[kind |-> "Variable",
               name |-> OrElse(FirstIdentifierText(n, lines), "<var>"),
               signature |-> <<>>]>>
      [] k \in {"import_statement", "import_declaration", "use_declaration", "use_item"} ->
            <<[kind |-> "Import", name |-> NodeText(n, lines), signature |-> <<>>]>>
      [] k = "export_statement" ->
            <<[kind |-> "Export", name |-> NodeText(n, lines), signature |-> <<>>]>>
      [] k \in {"mod_item", "module"} -> named("Module", "name", "<module>", <<>>)
      [] k \in {"function", "bind"} -> named("Function", "name", "<anonymous>", sigOf)
      [] k = "signature" -> named("Function", "name", "<anonymous>", sigOf)
      [] k = "data_type" -> named("Enum", "name", "<anonymous>", <<>>)
      [] k = "newtype" -> named("Struct", "name", "<anonymous>", <<>>)
      [] k = "type_synomym" -> named("TypeAlias", "name", "<anonymous>", <<>>)
      [] k = "class" -> named("Interface", "name", "<anonymous>", <<>>)
      [] k = "instance" ->
            LET class_name == OrElse(FindChildText(n, "name", lines), "<instance>")
                type_name == OrElse(FindChildText(n, "patterns", lines), "")
            IN  <<[kind |-> "Class",
                   name |-> IF type_name = "" THEN class_name
                            ELSE class_name \o " " \o type_name,
                   signature |-> <<>>]>>
      [] k = "foreign_import" ->
            LET sig == ChildByFieldName(n, "signature")
                nm == IF sig = <<>> THEN <<>> ELSE FindChildText(sig[1], "name", lines)
            IN  <<[kind |-> "Import", name |-> OrElse(nm, NodeText(n, lines)),
                   signature |-> <<>>]>>
      [] k = "import" ->
            <<[kind |-> "Import", name |-> NodeText(n, lines), signature |-> <<>>]>>
      [] k = "let_declaration" ->
            LET name == OrElse(RescriptBindingName(n, lines), "<anonymous>")
            IN  IF RescriptLetIsFunction(n)
                THEN <<[kind |-> "Function", name |-> name, signature |-> sigOf]>>
                ELSE <<[kind |-> "Variable", name |-> name, signature |-> <<>>]>>
      [] k = "type_declaration" /\ l = "ReScript" ->
            <<[kind |-> "TypeAlias",
               name |-> OrElse(RescriptBindingName(n, lines), "<anonymous>"),
               signature |-> <<>>]>>
      [] k = "module_declaration" ->
            <<[kind |-> "Module",
               name |-> OrElse(RescriptBindingName(n, lines), "<module>"),
               signature |-> <<>>]>>
      [] k = "external_declaration" ->
            <<[kind |-> "Function",
               name |-> OrElse(RescriptBindingName(n, lines), "<external>"),
               signature |-> <<>>]>>
      [] k = "open_statement" ->
            <<[kind |-> "Import",
               name |-> OrElse(RescriptBindingName(n, lines), NodeText(n, lines)),
               signature |-> <<>>]>>
      [] k = "exception_declaration" ->
            <<[kind |-> "Enum",
               name |-> OrElse(RescriptBindingName(n, lines), "<exception>"),
               signature |-> <<>>]>>
      [] OTHER -> <<>>

(***************************************************************************)
(* JSX subtree collector                                                   *)
(***************************************************************************)
RECURSIVE JoinDots(_, _)
\* parts.join(".") from part i on
JoinDots(parts, i) ==
    IF i > Len(parts) THEN ""
    ELSE IF i = Len(parts) THEN parts[i]
    ELSE parts[i] \o "." \o JoinDots(parts, i + 1)

RECURSIVE JsxIdentifierFrom(_, _, _)
\* The loop of jsx_identifier_text from child i on.
JsxIdentifierFrom(n, lines, i) ==
    IF i > Len(n.kids) THEN "unknown"
    ELSE LET c == n.kids[i] IN
         IF c.kind = "nested_jsx_identifier"
         THEN LET ids == SelectSeq(c.kids, LAMBDA k : k.kind = "jsx_identifier")
              IN  JoinDots([j \in DOMAIN ids |-> NodeText(ids[j], lines)], 1)
         ELSE IF c.kind = "jsx_identifier" THEN NodeText(c, lines)
         ELSE JsxIdentifierFrom(n, lines, i + 1)

\* jsx_identifier_text
JsxIdentifierText(n, lines) == JsxIdentifierFrom(n, lines, 1)

\* jsx_tag_name
JsxTagName(n, lines) ==
    LET o == FirstKidOfKind(n, "jsx_opening_element")
    IN  IF o = <<>> THEN "unknown" ELSE JsxIdentifierText(o[1], lines)

\* jsx_self_closing_tag
JsxSelfClosingTag(n, lines) == JsxIdentifierText(n, lines)

\* has_jsx_spread
HasJsxSpread(n) ==
    \E i \in DOMAIN n.kids :
        /\ n.kids[i].kind = "jsx_expression"
        /\ \E j \in DOMAIN n.kids[i].kids : n.kids[i].kids[j].kind = "spread_element"

JsxEntry(name, n, children) ==
    [kind |-> "Property", name |-> name, start_line |-> n.srow + 1,
     end_line |-> n.erow + 1, signature |-> <<>>, children |-> children, doc |-> <<>>]

RECURSIVE CollectJsxFlat(_, _, _)
\* A collector that pushes every JSX entry onto the one list it was given.
CollectJsxFlat(n, lines, i) ==
    IF i > Len(n.kids) THEN <<>>
    ELSE LET c == n.kids[i]
             here ==
                CASE c.kind = "jsx_element" ->
                        <<JsxEntry("<" \o JsxTagName(c, lines) \o ">", c, <<>>)>>
                        \o CollectJsxFlat(c, lines, 1)
                  [] c.kind = "jsx_self_closing_element" ->
                        <<JsxEntry(IF HasJsxSpread(c)
                                   THEN "<" \o JsxSelfClosingTag(c, lines) \o " .../>"
                                   ELSE "<" \o JsxSelfClosingTag(c, lines) \o " />",
                                   c, <<>>)>>
                  [] c.kind = "jsx_fragment" ->
                        <<JsxEntry("<>...</>", c, <<>>)>> \o CollectJsxFlat(c, lines, 1)
                  [] OTHER -> CollectJsxFlat(c, lines, 1)
         IN  here \o CollectJsxFlat(n, lines, i + 1)

RECURSIVE CollectJsxFrom(_, _, _)
\* collect_jsx_recursive: what the loop pushes onto `entries` from child i on.
CollectJsxFrom(n, lines, i) ==
    IF i > Len(n.kids) THEN <<>>
    ELSE LET c == n.kids[i]
             here ==
                CASE c.kind = "jsx_element" ->
                        <<JsxEntry("<" \o JsxTagName(c, lines) \o ">", c,
                                   CollectJsxFrom(c, lines, 1))>>
                  [] c.kind = "jsx_self_closing_element" ->
                        <<JsxEntry(IF HasJsxSpread(c)
                                   THEN "<" \o JsxSelfClosingTag(c, lines) \o " .../>"
                                   ELSE "<" \o JsxSelfClosingTag(c, lines) \o " />",
                                   c, <<>>)>>
                  [] c.kind = "jsx_fragment" ->
                        <<JsxEntry("<>...</>", c, CollectJsxFrom(c, lines, 1))>>
                  [] OTHER -> CollectJsxFrom(c, lines, 1)
         IN  here \o CollectJsxFrom(n, lines, i + 1)

\* collect_jsx_children
CollectJsxChildren(n, lines) == CollectJsxFrom(n, lines, 1)

(***************************************************************************)
(* node_to_entry, collect_children, walk_top_level                         *)
(***************************************************************************)
\* Kind names that contain "body" or "block".
BodyOrBlockKinds == {"class_body", "block", "declaration_body", "enum_body",
                     "interface_body", "body_statement"}

RECURSIVE PrevSiblingSkippingComments(_, _)
\* The nearest earlier sibling that is not a comment.
PrevSiblingSkippingComments(parent, i) ==
    IF i = 1 THEN <<>>
    ELSE IF parent.kids[i - 1].kind = "comment"
         THEN PrevSiblingSkippingComments(parent, i - 1)
         ELSE <<parent.kids[i - 1]>>

\* node.prev_sibling() of the i-th child of parent.
PrevSibling(parent, i) == IF i = 1 THEN <<>> ELSE <<parent.kids[i - 1]>>

\* Decorator texts that contain "@react.component".
ReactComponentTexts == {"@react.component", "@react.component(: props)"}

RECURSIVE NodeToEntry(_, _, _, _, _)
RECURSIVE CollectChildren(_, _, _, _)
RECURSIVE EntriesOfKids(_, _, _, _, _)

\* node_to_entry for the i-th child of parent.
NodeToEntry(parent, i, lines, l, depth) ==
    LET n == parent.kids[i]
        prev == PrevSibling(parent, i)
        m == KindNameSignature(n, lines, l)
    IN  IF m = <<>> THEN <<>>
        ELSE LET kind == m[1].kind
                 collected ==
                    IF kind \in {"Class", "Struct", "Module"} /\ depth < 1
                    THEN CollectChildren(n, lines, l, depth + 1)
                    ELSE <<>>
                 children ==
                    IF l = "ReScript" /\ n.kind = "let_declaration" /\ kind = "Function"
                    THEN IF prev # <<>> /\ prev[1].kind = "decorator"
                            /\ NodeText(prev[1], lines) \in ReactComponentTexts
                         THEN CollectJsxChildren(n, lines)
                         ELSE collected
                    ELSE collected
             IN  <<[kind |-> kind, name |-> m[1].name,
                    start_line |-> StartLine(n), end_line |-> EndLine(n),
                    signature |-> m[1].signature, children |-> children,
                    doc |-> ExtractDoc(prev, lines)]>>

\* The entries of the children i.. of parent, each mapped at the given depth.
EntriesOfKids(parent, i, lines, l, depth) ==
    IF i > Len(parent.kids) THEN <<>>
    ELSE NodeToEntry(parent, i, lines, l, depth)
         \o EntriesOfKids(parent, i + 1, lines, l, depth)

\* A collector that maps the children it finds as top-level nodes.
CollectChildrenAtDepthZero(n, lines, l, depth) ==
    LET body == SelectSeq(n.kids, LAMBDA c : c.kind \in BodyOrBlockKinds)
        parent == IF body = <<>> THEN n ELSE body[1]
    IN  EntriesOfKids(parent, 1, lines, l, 0)

\* collect_children
CollectChildren(n, lines, l, depth) ==
    LET body == SelectSeq(n.kids, LAMBDA c : c.kind \in BodyOrBlockKinds)
        parent == IF body = <<>> THEN n ELSE body[1]
    IN  EntriesOfKids(parent, 1, lines, l, depth)

RECURSIVE WalkFrom(_, _, _, _)
\* The loop of walk_top_level from child i of the root on.
WalkFrom(root, i, lines, l) ==
    IF i > Len(root.kids) THEN <<>>
    ELSE LET child == root.kids[i]
             here == IF l = "Haskell" /\ child.kind \in {"declarations", "imports"}
                     THEN EntriesOfKids(child, 1, lines, l, 0)
                     ELSE NodeToEntry(root, i, lines, l, 0)
         IN  here \o WalkFrom(root, i + 1, lines, l)

\* A walk that never looks inside the Haskell wrapper nodes.
WalkTopLevelFlat(root, lines, l) == EntriesOfKids(root, 1, lines, l, 0)

\* walk_top_level
WalkTopLevel(root, lines, l) == WalkFrom(root, 1, lines, l)

(***************************************************************************)
(* Renderer                                                                *)
(***************************************************************************)
(***************************************************************************)
(* Import texts.  A &str is the sequence of its characters.                *)
(***************************************************************************)
\* str::as_bytes of the import texts of the drawn sources.
Bytes(s) ==
    CASE s = "use a::b;" ->
            <<"u", "s", "e", " ", "a", ":", ":", "b", ";">>
      [] s = "import A" ->
            <<"i", "m", "p", "o", "r", "t", " ", "A">>
      [] s = "import qualified B as T" ->
            <<"i", "m", "p", "o", "r", "t", " ", "q", "u", "a", "l", "i", "f", "i", "e", "d", " ", "B", " ", "a", "s", " ", "T">>
      [] s = "Belt" ->
            <<"B", "e", "l", "t">>
      [] s = "from os import path" ->
            <<"f", "r", "o", "m", " ", "o", "s", " ", "i", "m", "p", "o", "r", "t", " ", "p", "a", "t", "h">>
      [] s = "import x from \"react\"" ->
            <<"i", "m", "p", "o", "r", "t", " ", "x", " ", "f", "r", "o", "m", " ", "\"", "r", "e", "a", "c", "t", "\"">>

Whitespace == {" ", "\t"}

Uppercase == {"A", "B", "C", "D", "E", "F", "G", "H", "I", "J", "K", "L", "M",
              "N", "O", "P", "Q", "R", "S", "T", "U", "V", "W", "X", "Y", "Z"}

RECURSIVE TrimStart(_)
TrimStart(s) == IF s # <<>> /\ Head(s) \in Whitespace THEN TrimStart(Tail(s)) ELSE s

RECURSIVE TrimEnd(_)
TrimEnd(s) ==
    IF s # <<>> /\ s[Len(s)] \in Whitespace THEN TrimEnd(SubSeq(s, 1, Len(s) - 1)) ELSE s

\* str::trim
Trim(s) == TrimEnd(TrimStart(s))

\* str::starts_with
StartsWith(s, pre) == Len(pre) <= Len(s) /\ SubSeq(s, 1, Len(pre)) = pre

\* str::ends_with
EndsWith(s, suf) == Len(suf) <= Len(s) /\ SubSeq(s, Len(s) - Len(suf) + 1, Len(s)) = suf

\* str::strip_prefix: Some(rest) as <<rest>>, None as <<>>.
StripPrefix(s, pre) ==
    IF StartsWith(s, pre) THEN <<SubSeq(s, Len(pre) + 1, Len(s))>> ELSE <<>>

RECURSIVE TrimEndMatches(_, _)
\* str::trim_end_matches with a string pattern.
TrimEndMatches(s, pat) ==
    IF EndsWith(s, pat) THEN TrimEndMatches(SubSeq(s, 1, Len(s) - Len(pat)), pat) ELSE s

RECURSIVE TrimStartIn(_, _)
TrimStartIn(s, set) ==
    IF s # <<>> /\ Head(s) \in set THEN TrimStartIn(Tail(s), set) ELSE s

RECURSIVE TrimEndIn(_, _)
TrimEndIn(s, set) ==
    IF s # <<>> /\ s[Len(s)] \in set THEN TrimEndIn(SubSeq(s, 1, Len(s) - 1), set) ELSE s

\* str::trim_matches with a predicate on characters.
TrimMatches(s, set) == TrimEndIn(TrimStartIn(s, set), set)

\* str::find: Some(offset of the first occurrence), offsets counted from 0.
Find(s, pat) ==
    LET hits == {i \in 1..(Len(s) - Len(pat) + 1) : SubSeq(s, i, i + Len(pat) - 1) = pat}
    IN  IF hits = {} THEN <<>>
        ELSE <<(CHOOSE i \in hits : \A j \in hits : i <= j) - 1>>

\* str::contains
Contains(s, pat) == Find(s, pat) # <<>>

RECURSIVE SplitWhitespace(_)
\* str::split_whitespace, collected.
SplitWhitespace(s) ==
    LET t == TrimStart(s)
        ws == {i \in 1..Len(t) : t[i] \in Whitespace}
        n == IF ws = {} THEN Len(t) ELSE (CHOOSE i \in ws : \A j \in ws : i <= j) - 1
    IN  IF t = <<>> THEN <<>>
        ELSE <<SubSeq(t, 1, n)>> \o SplitWhitespace(SubSeq(t, n + 1, Len(t)))

\* split_whitespace().next().unwrap_or("")
FirstToken(s) == IF SplitWhitespace(s) = <<>> THEN <<>> ELSE SplitWhitespace(s)[1]

\* split(c).next(): the text before the first c.
BeforeFirst(s, c) ==
    IF Find(s, <<c>>) = <<>> THEN s ELSE SubSeq(s, 1, Find(s, <<c>>)[1])

Quotes == {"\"", "'", ";"}

\* The Haskell rule of extract_import_source: Some(module) or None.
HaskellModule(trimmed) ==
    LET import == StripPrefix(trimmed, <<"i", "m", "p", "o", "r", "t", " ">>)
    IN  IF import # <<>>
           /\ ~Contains(trimmed, <<" ", "f", "r", "o", "m", " ">>)
           /\ ~Contains(trimmed, <<" ", "f", "r", "o", "m", "\"">>)
        THEN LET rest == OrElse(StripPrefix(import[1], <<"q", "u", "a", "l", "i", "f", "i", "e", "d", " ">>),
                                import[1])
                 toks == SplitWhitespace(rest)
             IN  IF toks # <<>> /\ toks[1][1] \in Uppercase THEN <<toks[1]>> ELSE <<>>
        ELSE <<>>

\* extract_import_source
ExtractImportSource(txt) ==
    LET trimmed == TrimEndMatches(Trim(txt), <<";">>)
        use == StripPrefix(trimmed, <<"u", "s", "e", " ">>)
        open == StripPrefix(trimmed, <<"o", "p", "e", "n", " ">>)
        from == StripPrefix(trimmed, <<"f", "r", "o", "m", " ">>)
        import == StripPrefix(trimmed, <<"i", "m", "p", "o", "r", "t", " ">>)
        include == StripPrefix(trimmed, <<"#", "i", "n", "c", "l", "u", "d", "e">>)
        from_pos == Find(trimmed, <<"f", "r", "o", "m", " ">>)
        toks == SplitWhitespace(trimmed)
    IN  IF use # <<>>
        THEN TrimEndMatches(Trim(BeforeFirst(use[1], "{")), <<":", ":">>)
        ELSE IF open # <<>> THEN FirstToken(open[1])
        ELSE IF from # <<>> THEN FirstToken(from[1])
        ELSE IF HaskellModule(trimmed) # <<>> THEN HaskellModule(trimmed)[1]
        ELSE IF StartsWith(trimmed, <<"i", "m", "p", "o", "r", "t">>)
        THEN IF from_pos # <<>>
             THEN TrimMatches(Trim(SubSeq(trimmed, from_pos[1] + 5 + 1, Len(trimmed))),
                              Quotes)
             ELSE TrimMatches(Trim(OrElse(import, <<>>)), Quotes)
        ELSE IF import # <<>> THEN FirstToken(import[1])
        ELSE IF include # <<>> THEN Trim(include[1])
        ELSE IF toks = <<>> THEN trimmed ELSE toks[Len(toks)]

\* The kind label of format_entry.
KindLabel(kind) ==
    CASE kind = "Function" -> "fn"
      [] kind = "Method" -> "method"
      [] kind = "Class" -> "class"
      [] kind = "Struct" -> "struct"
      [] kind = "Interface" -> "interface"
      [] kind = "TypeAlias" -> "type"
      [] kind = "Enum" -> "enum"
      [] kind = "Constant" -> "const"
      [] kind = "Variable" -> "let"
      [] kind = "Export" -> "export"
      [] kind = "Property" -> "prop"
      [] kind = "Module" -> "mod"
      [] kind = "Import" -> "import"
      [] kind = "TestSuite" -> "suite"
      [] kind = "TestCase" -> "test"

\* format_entry: one element of `out`. Its text is the range, the label and the
\* name (and the doc) on one line, followed by a second line when there is a
\* signature.
FormatEntry(e, indent) ==
    [indent |-> indent, start |-> e.start_line, end |-> e.end_line,
     label |-> KindLabel(e.kind), name |-> e.name, sig |-> e.signature, doc |-> e.doc]

RECURSIVE FirstOccurrences(_)
\* The `sources` vector of format_imports: every source, where it first occurs.
FirstOccurrences(srcs) ==
    IF srcs = <<>> THEN <<>>
    ELSE LET front == FirstOccurrences(SubSeq(srcs, 1, Len(srcs) - 1))
             src == srcs[Len(srcs)]
         IN  IF \E i \in DOMAIN front : front[i] = src THEN front ELSE Append(front, src)

\* A summary that lists the keys of `seen` in the order its hasher yields.
FormatImportsHashOrder(imports, first_entry) ==
    LET count == Len(imports)
        srcs == [i \in DOMAIN imports |-> ExtractImportSource(Bytes(imports[i]))]
        seen == [src \in {srcs[i] : i \in DOMAIN srcs} |->
                    Cardinality({i \in DOMAIN srcs : srcs[i] = src})]
        first == FirstOccurrences(srcs)
        sources == IF hasher = 1 THEN first
                   ELSE [i \in DOMAIN first |-> first[Len(first) + 1 - i]]
        shown == SubSeq(sources, 1, IF Len(sources) < 5 THEN Len(sources) ELSE 5)
        parts == [i \in DOMAIN shown |->
                    [src |-> shown[i],
                     count |-> IF seen[shown[i]] > 1 THEN <<seen[shown[i]]>> ELSE <<>>]]
        suffix == IF count > 5 THEN <<count>> ELSE <<>>
    IN  [indent |-> 0,
         start |-> IF first_entry = <<>> THEN 1 ELSE first_entry[1].start_line,
         label |-> "imports", parts |-> parts, suffix |-> suffix]

\* format_imports: the one-line summary of a group of imports; `start` comes
\* from the first entry of the whole list.
FormatImports(imports, first_entry) ==
    LET count == Len(imports)
        srcs == [i \in DOMAIN imports |-> ExtractImportSource(Bytes(imports[i]))]
        seen == [src \in {srcs[i] : i \in DOMAIN srcs} |->
                    Cardinality({i \in DOMAIN srcs : srcs[i] = src})]
        sources == FirstOccurrences(srcs)
        shown == SubSeq(sources, 1, IF Len(sources) < 5 THEN Len(sources) ELSE 5)
        parts == [i \in DOMAIN shown |->
                    [src |-> shown[i],
                     count |-> IF seen[shown[i]] > 1 THEN <<seen[shown[i]]>> ELSE <<>>]]
        suffix == IF count > 5 THEN <<count>> ELSE <<>>
    IN  [indent |-> 0,
         start |-> IF first_entry = <<>> THEN 1 ELSE first_entry[1].start_line,
         label |-> "imports", parts |-> parts, suffix |-> suffix]

\* The number of text lines of one element of `out`.
BlockLines(b) == IF b.label = "imports" THEN 1 ELSE 1 + Len(b.sig)

RECURSIVE OutputLinesFrom(_, _)
OutputLinesFrom(out, i) ==
    IF i > Len(out) THEN 0 ELSE BlockLines(out[i]) + OutputLinesFrom(out, i + 1)

\* The number of lines of out.join("\n").
OutputLines(out) == OutputLinesFrom(out, 1)

RECURSIVE PushChildrenGrouping(_, _, _, _)
\* An inner loop that leaves the Import children to the summary lines.
PushChildrenGrouping(children, i, max, out) ==
    IF i > Len(children) \/ Len(out) >= max THEN out
    ELSE PushChildrenGrouping(children, i + 1, max,
                              IF children[i].kind = "Import" THEN out
                              ELSE Append(out, FormatEntry(children[i], 1)))

RECURSIVE PushChildren(_, _, _, _)
\* The inner loop of format_entries over entry.children, from child i on.
PushChildren(children, i, max, out) ==
    IF i > Len(children) \/ Len(out) >= max THEN out
    ELSE PushChildren(children, i + 1, max, Append(out, FormatEntry(children[i], 1)))

RECURSIVE FormatFrom(_, _, _, _, _)
\* The loop of format_entries from entry i on, and the flush that follows it.
FormatFrom(es, i, max, out, import_groups) ==
    LET first == IF es = <<>> THEN <<>> ELSE <<es[1]>>
        flushed == IF import_groups # <<>>
                   THEN Append(out, FormatImports(import_groups, first))
                   ELSE out
    IN  IF i > Len(es) \/ Len(out) >= max THEN flushed
        ELSE IF es[i].kind = "Import"
             THEN FormatFrom(es, i + 1, max, out, Append(import_groups, es[i].name))
             ELSE FormatFrom(es, i + 1, max,
                             PushChildren(es[i].children, 1, max,
                                          Append(flushed, FormatEntry(es[i], 0))),
                             <<>>)

\* format_entries
FormatEntries(es, lines, max) == FormatFrom(es, 1, max, <<>>, <<>>)

(***************************************************************************)
(* Fallback                                                                *)
(***************************************************************************)
\* Lines kept at each end of the excerpt.
HeadTailKeep == 1

\* fallback::head_tail: the head/tail excerpt of the text; short texts are
\* returned whole.
HeadTail(lines) ==
    LET n == Len(lines)
    IN  IF n <= 2 * HeadTailKeep
        THEN [i \in 1..n |-> [label |-> "text", line |-> lines[i]]]
        ELSE [i \in 1..HeadTailKeep |-> [label |-> "text", line |-> lines[i]]]
             \o <<[label |-> "gap", line |-> n - 2 * HeadTailKeep]>>
             \o [i \in 1..HeadTailKeep |->
                    [label |-> "text", line |-> lines[n - HeadTailKeep + i]]]

\* fallback_outline
FallbackOutline(lines, max) == HeadTail(lines)

(***************************************************************************)
(* outline()                                                               *)
(***************************************************************************)
\* path.and_then(|p| p.file_stem()).and_then(|s| s.to_str())
Stem(p) == IF p \in {"NoPath", "NoStem"} THEN <<>> ELSE <<p>>

\* An end line taken from the first entry instead of the last.
SyntheticEndLineFirst(es) == IF es = <<>> THEN 0 ELSE es[1].end_line

\* entries.last().map_or(0, |e| e.end_line)
SyntheticEndLine(es) == IF es = <<>> THEN 0 ELSE es[Len(es)].end_line

\* A wrap that pushes the file module after the entries it should replace.
WrapReScriptAppend(es, l, p) ==
    IF l = "ReScript" /\ Stem(p) # <<>>
    THEN Append(es, [kind |-> "Module", name |-> Stem(p)[1], start_line |-> 1,
                     end_line |-> SyntheticEndLine(es), signature |-> <<>>,
                     children |-> es, doc |-> <<>>])
    ELSE es

\* The ReScript file module of outline().
WrapReScript(es, l, p) ==
    IF l = "ReScript" /\ Stem(p) # <<>>
    THEN <<[kind |-> "Module", name |-> Stem(p)[1], start_line |-> 1,
            end_line |-> SyntheticEndLine(es), signature |-> <<>>,
            children |-> es, doc |-> <<>>]>>
    ELSE es

\* The three early returns of outline().
NeedsFallback(l, e) == OutlineLanguage(l) = <<>> \/ e # "ok"

\* max_lines of the repository's own calls of outline().
TestMaxLines == 100

Paths == {"NoPath", "NoStem", "Button"}

\* No install is running.
InstallIdle ==
    /\ host = ""
    /\ platform = ""
    /\ disk = <<>>
    /\ config_path = <<>>
    /\ config = <<>>
    /\ ret = <<>>
    /\ hist = <<>>

\* No import text is being summarised.
ImportIdle ==
    /\ import_text = <<>>
    /\ source = <<>>
    /\ resource = <<>>
    /\ group = <<>>
    /\ summary = <<>>

Init ==
    /\ pc = "start"
    /\ lang \in Lang
    /\ \E cs \in ChunkSeqs(lang, MaxTop) :
          /\ tree = RootOf(cs)
          /\ IF lang \in NoGrammarLangs
             THEN content \in {LinesOf(n) : n \in 0..MaxPlain}
             ELSE content = LinesOf(Height(cs, 1))
    /\ env \in IF lang \in NoGrammarLangs THEN {"ok"}
               ELSE {"ok", "set_language_failed", "parse_failed"}
    /\ path \in Paths
    /\ max_lines \in (0..MaxCap) \cup {TestMaxLines}
    /\ walked = <<>>
    /\ entries = <<>>
    /\ result = <<>>
    /\ query = ""
    /\ files = <<>>
    /\ outlines = <<>>
    /\ defs = {}
    /\ usages = {}
    /\ ranked = <<>>
    /\ InstallIdle
    /\ ImportIdle
    /\ hasher = 1
    /\ cursor = 0
    /\ out_lines = <<>>
    /\ pending = <<>>
    /\ sig_line = <<>>
    /\ sig_text = <<>>
    /\ earlier = <<>>

\* outline(), lines 7-18: no grammar, no parser or no tree.
Fallback ==
    /\ pc = "start"
    /\ NeedsFallback(lang, env)
    /\ result' = FallbackOutline(content, max_lines)
    /\ pc' = "done"
    /\ UNCHANGED <<installVars, importVars, callVars, sigVars, loopVars, outlineVars, searchVars, walked, entries>>

\* outline(), lines 20-22.
Walk ==
    /\ pc = "start"
    /\ ~NeedsFallback(lang, env)
    /\ walked' = WalkTopLevel(tree, content, lang)
    /\ entries' = walked'
    /\ pc' = "walked"
    /\ UNCHANGED <<installVars, importVars, callVars, sigVars, loopVars, outlineVars, searchVars, result>>

\* outline(), lines 27-40.
Wrap ==
    /\ pc = "walked"
    /\ entries' = WrapReScript(entries, lang, path)
    /\ pc' = "wrapped"
    /\ UNCHANGED <<installVars, importVars, callVars, sigVars, loopVars, outlineVars, searchVars, walked, result>>

\* outline(), line 42.
Render ==
    /\ pc = "wrapped"
    /\ result' = FormatEntries(entries, content, max_lines)
    /\ pc' = "done"
    /\ UNCHANGED <<installVars, importVars, callVars, sigVars, loopVars, outlineVars, searchVars, walked, entries>>

Next == Fallback \/ Walk \/ Wrap \/ Render

Spec == Init /\ [][Next]_vars

RECURSIVE Descendants(_)
\* Every entry of the list, at any depth.
Descendants(es) ==
    UNION {{es[i]} \cup Descendants(es[i].children) : i \in DOMAIN es}

(***************************************************************************)
(* Properties of the outline pipeline                                      *)
(***************************************************************************)
\* The entries outline() holds once the walk and the ReScript wrap are done.
Produced == IF pc \in {"wrapped", "done"} THEN Descendants(entries) ELSE {}

\* C1: every entry the pipeline produces (top-level entries, container
\* children, JSX children, the synthetic ReScript file module) has
\* 1 <= start_line <= end_line <= line count of the source.
C1_EntriesWithinSource ==
    \A e \in Produced :
        /\ 1 <= e.start_line
        /\ e.start_line <= e.end_line
        /\ e.end_line <= Len(content)

\* C2: the line interval of every child entry (container children, JSX
\* children, children of the synthetic ReScript file module) lies inside the
\* interval of its parent.
C2_ChildrenWithinParent ==
    \A e \in Produced :
        \A i \in DOMAIN e.children :
            /\ e.start_line <= e.children[i].start_line
            /\ e.children[i].end_line <= e.end_line

\* C2 happens: a ReScript file module over two declarations, one of them a
\* component whose JSX element has a JSX child of its own.
C2_Witness ==
    /\ pc = "done"
    /\ lang = "ReScript"
    /\ Len(entries) = 1
    /\ entries[1].kind = "Module"
    /\ Len(entries[1].children) = 2
    /\ \E e \in Produced : e.kind = "Property" /\ e.children # <<>>

\* C3 as claimed: every ReScript source that yields an entry comes back as one
\* top-level Module entry named after the file stem, whose children are the
\* original top-level entries in their order.
C3_EveryReScriptSourceWrapped ==
    (pc \in {"wrapped", "done"} /\ lang = "ReScript" /\ walked # <<>>)
        => /\ Len(entries) = 1
           /\ entries[1].kind = "Module"
           /\ Stem(path) = <<entries[1].name>>
           /\ entries[1].children = walked

\* C3 as amended: a ReScript source that yields an entry and is given with a
\* path that has a file stem comes back as one top-level Module entry named
\* after the stem, whose children are the original top-level entries in their
\* order; without a stem the entries come back unwrapped.
C3_ReScriptSourceWithStemWrapped ==
    (pc \in {"wrapped", "done"} /\ lang = "ReScript" /\ walked # <<>>)
        => IF Stem(path) # <<>>
           THEN /\ Len(entries) = 1
                /\ entries[1].kind = "Module"
                /\ entries[1].name = Stem(path)[1]
                /\ entries[1].children = walked
           ELSE entries = walked

\* C3 happens: a ReScript source with a path and two top-level entries, wrapped.
C3_Witness ==
    /\ pc = "wrapped"
    /\ lang = "ReScript"
    /\ path = "Button"
    /\ Len(walked) = 2
    /\ Len(entries) = 1

\* C4: outline of the empty string is the empty string, for every language,
\* every max_lines and every path argument.
C4_EmptySourceEmptyOutline ==
    (pc = "done" /\ content = <<>>) => result = <<>>

\* C5: outline always comes to a result; when the language has no grammar,
\* the parser refuses the grammar or parsing yields no tree, the result is
\* fallback(content) whatever max_lines and path are; the registry has a
\* grammar for exactly the twelve grammar-backed languages.
C5_FallbackOnEveryFailure ==
    /\ (pc # "done") =>
          \/ pc = "start" /\ NeedsFallback(lang, env)
          \/ pc = "start" /\ ~NeedsFallback(lang, env)
          \/ pc = "walked"
          \/ pc = "wrapped"
    /\ (pc = "done" /\ (lang \in NoGrammarLangs \/ env # "ok"))
            => result = HeadTail(content)
    /\ \A l \in GrammarLangs : OutlineLanguage(l) # <<>>
    /\ \A l \in NoGrammarLangs : OutlineLanguage(l) = <<>>

\* C5 happens: a source in a language without grammar, longer than the
\* excerpt, has been outlined with a path and a cap below its length.
C5_Witness ==
    /\ pc = "done"
    /\ lang = "Swift"
    /\ Len(content) > 2 * HeadTailKeep
    /\ max_lines = 0
    /\ path = "Button"
    /\ result # <<>>

\* C6: the rendered text has at most max_lines lines, counting entry lines,
\* signature lines, child lines and imports summary lines.
C6_OutputWithinMaxLines ==
    (pc = "done" /\ ~NeedsFallback(lang, env)) => OutputLines(result) <= max_lines

(***************************************************************************)
(* Symbol search (crate::search::symbol)                                   *)
(*                                                                         *)
(* A file in scope is [path, stem, lang, tree, lines]; path is the file's  *)
(* path below the scope root as the sequence of its components, each       *)
(* component a number that stands for its place in the order of names.     *)
(* A result is [class, path, line].                                        *)
(***************************************************************************)
\* Largest number of top-level chunks of a file in scope.
MaxSearchTop == 1

\* The node kinds the mapper treats as definitions.
DefinitionKinds ==
    {"function_declaration", "function_definition", "function_item",
     "method_definition", "method_declaration", "class_declaration",
     "class_definition", "struct_item", "struct_declaration",
     "interface_declaration", "type_alias_declaration", "type_item",
     "enum_item", "enum_declaration", "const_item", "static_item",
     "lexical_declaration", "variable_declaration", "mod_item", "module",
     "function", "bind", "signature", "data_type", "newtype", "type_synomym",
     "class", "instance", "let_declaration", "type_declaration",
     "module_declaration", "external_declaration", "exception_declaration"}

RECURSIVE AllNodes(_)
\* The node and every node below it.
AllNodes(n) == {n} \cup UNION {AllNodes(n.kids[i]) : i \in DOMAIN n.kids}

\* The lines of the file whose text holds the identifier q.
MatchLines(f, q) ==
    {u[2] + 1 : u \in {v \in UNION {n.uses : n \in AllNodes(f.tree)} : v[1] = q}}

\* The outline entries of a file, as outline() builds them before rendering.
FileOutline(f) ==
    IF NeedsFallback(f.lang, "ok") THEN <<>>
    ELSE WrapReScript(WalkTopLevel(f.tree, f.lines, f.lang), f.lang, f.stem)

\* The entries of the outline es, at any depth, that are named q.
NamedEntries(es, q) == {e \in Descendants(es) : e.name = q}

\* The name the mapper gives a node, None when it maps the node to nothing.
DeclaredName(n, f) ==
    LET m == KindNameSignature(n, f.lines, f.lang)
    IN  IF m = <<>> THEN <<>> ELSE <<m[1].name>>

\* The lines at which q is defined in the file: the start line of every entry
\* named q, and every text match on the first line of a node of a definition
\* kind that declares q.
RawDefLines(f, es, q) ==
    {e.start_line : e \in NamedEntries(es, q)}
    \cup {n.srow + 1 : n \in {m \in AllNodes(f.tree) :
                                /\ m.kind \in DefinitionKinds
                                /\ DeclaredName(m, f) = <<q>>
                                /\ (m.srow + 1) \in MatchLines(f, q)}}

SetMin(S) == CHOOSE x \in S : \A y \in S : x <= y

\* Curried duplicate collapse: the definitions of one name in a Haskell file
\* are one definition, at the earliest line.
DefLines(f, es, q) ==
    LET raw == RawDefLines(f, es, q)
    IN  IF f.lang = "Haskell" /\ raw # {} THEN {SetMin(raw)} ELSE raw

\* A classifier that reports every text match off a definition line.
UsageLinesUnsuppressed(f, es, q) == MatchLines(f, q) \ RawDefLines(f, es, q)

\* Self-usage suppression: a text match is a usage unless it is a definition
\* or lies inside the span of an entry named q.
UsageLines(f, es, q) ==
    {l \in MatchLines(f, q) \ RawDefLines(f, es, q) :
        ~\E e \in NamedEntries(es, q) : e.start_line <= l /\ l <= e.end_line}

Result(class, f, l) == [class |-> class, path |-> f.path, line |-> l]

RECURSIVE LexLess(_, _)
\* The lexicographic order of paths.
LexLess(p, q) ==
    IF p = <<>> THEN q # <<>>
    ELSE IF q = <<>> THEN FALSE
    ELSE IF p[1] # q[1] THEN p[1] < q[1]
    ELSE LexLess(Tail(p), Tail(q))

\* A ranker that forgets the distance to the scope root.
RankBeforeNoDistance(a, b) ==
    IF a.class # b.class THEN a.class = "definition"
    ELSE IF a.path # b.path THEN LexLess(a.path, b.path)
    ELSE a.line < b.line

\* The ranker's order: definitions first, then the paths closer to the scope
\* root, then (path, line).
RankBefore(a, b) ==
    IF a.class # b.class THEN a.class = "definition"
    ELSE IF Len(a.path) # Len(b.path) THEN Len(a.path) < Len(b.path)
    ELSE IF a.path # b.path THEN LexLess(a.path, b.path)
    ELSE a.line < b.line

RECURSIVE Ascending(_)
\* The numbers of S in ascending order.
Ascending(S) == IF S = {} THEN <<>> ELSE <<SetMin(S)>> \o Ascending(S \ {SetMin(S)})

RECURSIVE Found(_, _, _, _, _)
\* The results in the order the scan finds them: file by file, in each file
\* the definitions and then the usages.
Found(fs, i, q, ds, us) ==
    IF i > Len(fs) THEN <<>>
    ELSE LET dl == Ascending({r.line : r \in {d \in ds : d.path = fs[i].path}})
             ul == Ascending({r.line : r \in {u \in us : u.path = fs[i].path}})
         IN  [k \in DOMAIN dl |-> Result("definition", fs[i], dl[k])]
             \o [k \in DOMAIN ul |-> Result("usage", fs[i], ul[k])]
             \o Found(fs, i + 1, q, ds, us)

RECURSIVE InsertRanked(_, _, _)
\* x put into the ranked list s, behind everything it does not precede.
InsertRanked(x, s, i) ==
    IF i > Len(s) THEN Append(s, x)
    ELSE IF RankBefore(x, s[i])
         THEN SubSeq(s, 1, i - 1) \o <<x>> \o SubSeq(s, i, Len(s))
         ELSE InsertRanked(x, s, i + 1)

RECURSIVE RankFrom(_, _, _)
RankFrom(found, i, s) ==
    IF i > Len(found) THEN s ELSE RankFrom(found, i + 1, InsertRanked(found[i], s, 1))

\* The ranked result list.
RankResults(found) == RankFrom(found, 1, <<>>)

\* The files a scope may hold: their paths and stems.
ScopePaths ==
    {[path |-> <<2>>, stem |-> "Button"], [path |-> <<1, 1>>, stem |-> "f"],
     [path |-> <<1, 2>>, stem |-> "Parser"], [path |-> <<3>>, stem |-> "main"]}

SearchLangs == {"Haskell", "ReScript", "Rust"}

SearchChunksOf(l) ==
    CASE l = "Haskell" -> {ChunkHsDecls, ChunkHsTypes}
      [] l = "ReScript" -> {ChunkResComponent, ChunkResType, ChunkResValue}
      [] OTHER -> {ChunkFn, ChunkCaller, ChunkClass}

SearchQueries == {"f", "Button"}

SearchInit ==
    /\ pc = "scan"
    /\ lang = "Rust"
    /\ content = <<>>
    /\ tree = RootOf(<<>>)
    /\ env = "ok"
    /\ path = "NoPath"
    /\ max_lines = 0
    /\ walked = <<>>
    /\ entries = <<>>
    /\ result = <<>>
    /\ query \in SearchQueries
    /\ \E p1 \in ScopePaths, p2 \in ScopePaths, l1 \in SearchLangs, l2 \in SearchLangs :
          /\ p1 # p2
          /\ \E c1 \in UNION {[1..k -> SearchChunksOf(l1)] : k \in 0..MaxSearchTop},
                c2 \in UNION {[1..k -> SearchChunksOf(l2)] : k \in 0..MaxSearchTop} :
                files = <<[path |-> p1.path, stem |-> p1.stem, lang |-> l1,
                           tree |-> RootOf(c1), lines |-> LinesOf(Height(c1, 1))],
                          [path |-> p2.path, stem |-> p2.stem, lang |-> l2,
                           tree |-> RootOf(c2), lines |-> LinesOf(Height(c2, 1))]>>
    /\ outlines = <<>>
    /\ defs = {}
    /\ usages = {}
    /\ ranked = <<>>
    /\ InstallIdle
    /\ ImportIdle
    /\ hasher = 1
    /\ cursor = 0
    /\ out_lines = <<>>
    /\ pending = <<>>
    /\ sig_line = <<>>
    /\ sig_text = <<>>
    /\ earlier = <<>>

\* The next file in traversal order is parsed and outlined.
ReadFile ==
    /\ pc = "scan"
    /\ Len(outlines) < Len(files)
    /\ outlines' = Append(outlines, FileOutline(files[Len(outlines) + 1]))
    /\ UNCHANGED <<pc, installVars, importVars, callVars, sigVars, loopVars, outlineVars, walked, entries, result, query, files, defs,
                   usages, ranked>>

\* Every text match of the query is classified as definition or usage.
Classify ==
    /\ pc = "scan"
    /\ Len(outlines) = Len(files)
    /\ defs' = UNION {{Result("definition", files[i], l) :
                          l \in DefLines(files[i], outlines[i], query)} :
                      i \in DOMAIN files}
    /\ usages' = UNION {{Result("usage", files[i], l) :
                            l \in UsageLines(files[i], outlines[i], query)} :
                        i \in DOMAIN files}
    /\ pc' = "classified"
    /\ UNCHANGED <<installVars, importVars, callVars, sigVars, loopVars, outlineVars, walked, entries, result, query, files, outlines, ranked>>

\* The results are ranked.
Rank ==
    /\ pc = "classified"
    /\ ranked' = RankResults(Found(files, 1, query, defs, usages))
    /\ pc' = "ranked"
    /\ UNCHANGED <<installVars, importVars, callVars, sigVars, loopVars, outlineVars, walked, entries, result, query, files, outlines,
                   defs, usages>>

SearchNext == ReadFile \/ Classify \/ Rank

SearchSpec == SearchInit /\ [][SearchNext]_vars

(***************************************************************************)
(* Properties of the symbol search                                         *)
(***************************************************************************)
Classified == pc \in {"classified", "ranked"}

\* The nodes the top-level walk visits: the children of the root, and of the
\* Haskell wrapper nodes in their place.
TopNodes(f) ==
    UNION {IF f.lang = "Haskell" /\ f.tree.kids[i].kind \in {"declarations", "imports"}
           THEN {f.tree.kids[i].kids[j] : j \in DOMAIN f.tree.kids[i].kids}
           ELSE {f.tree.kids[i]} : i \in DOMAIN f.tree.kids}

\* The node declares the identifier q: q is the text of its name, or of the
\* name or pattern of its binding.
Declares(n, q) ==
    \/ \E i \in DOMAIN n.kids : n.kids[i].field = "name" /\ n.kids[i].text = q
    \/ \E i \in DOMAIN n.kids :
          /\ n.kids[i].kind \in {"let_binding", "type_binding", "module_binding"}
          /\ \E j \in DOMAIN n.kids[i].kids :
                /\ n.kids[i].kids[j].field \in {"name", "pattern"}
                /\ n.kids[i].kids[j].text = q

DefsIn(f) == {d \in defs : d.path = f.path}
UsagesIn(f) == {u \in usages : u.path = f.path}

HsSignatures(f, q) == {n \in TopNodes(f) : n.kind = "signature" /\ Declares(n, q)}
HsEquations(f, q) == {n \in TopNodes(f) : n.kind \in {"function", "bind"} /\ Declares(n, q)}

\* C7: a Haskell top-level name that appears as a type signature and as one
\* or more function/bind equations is reported as exactly one definition, at
\* the earliest line among the signature and the equations.
C7_OneDefinitionAtEarliestLine ==
    Classified =>
        \A i \in DOMAIN files :
            (/\ files[i].lang = "Haskell"
             /\ HsSignatures(files[i], query) # {}
             /\ HsEquations(files[i], query) # {})
            => DefsIn(files[i]) =
                 {Result("definition", files[i],
                         SetMin({n.srow + 1 : n \in HsSignatures(files[i], query)
                                                  \cup HsEquations(files[i], query)}))}

\* C7 happens: a Haskell file with a signature and an equation of the query
\* has been searched and yields one definition.
C7_Witness ==
    /\ pc = "ranked"
    /\ \E i \in DOMAIN files :
          /\ files[i].lang = "Haskell"
          /\ HsSignatures(files[i], query) # {}
          /\ HsEquations(files[i], query) # {}
          /\ Cardinality(DefsIn(files[i])) = 1

\* C8: no text match inside the span of a definition entry named by the query
\* is reported as a usage; a top-level declaration of the query yields no
\* usage from within its own lines, so a recursive function yields none from
\* its body.
C8_NoUsageInsideOwnDefinition ==
    Classified =>
        \A i \in DOMAIN files :
            /\ \A e \in NamedEntries(outlines[i], query) :
                  \A u \in UsagesIn(files[i]) :
                      ~(e.start_line <= u.line /\ u.line <= e.end_line)
            /\ \A n \in TopNodes(files[i]) :
                  (n.kind \in DefinitionKinds /\ Declares(n, query))
                  => \A u \in UsagesIn(files[i]) :
                        ~(n.srow + 1 <= u.line /\ u.line <= n.erow + 1)

\* C8 happens: a Haskell function calls itself on a later line of its body,
\* that line is no usage, and a call from another declaration is one.
C8_Witness ==
    /\ pc = "ranked"
    /\ \E i \in DOMAIN files :
          /\ files[i].lang = "Haskell"
          /\ \E n \in HsEquations(files[i], query) :
                /\ n.erow > n.srow
                /\ (n.erow + 1) \in MatchLines(files[i], query)
                /\ \A u \in UsagesIn(files[i]) : u.line # n.erow + 1
          /\ UsagesIn(files[i]) # {}

\* C9 as claimed: every outline entry named by the query yields a definition
\* record at its start line, and that line is not reported as a usage too.
C9_EveryNamedEntryIsADefinition ==
    Classified =>
        \A i \in DOMAIN files :
            \A e \in NamedEntries(outlines[i], query) :
                /\ Result("definition", files[i], e.start_line) \in defs
                /\ Result("usage", files[i], e.start_line) \notin usages

\* C9 as amended: every outline entry named by the query yields a definition
\* record at its start line, except that in a Haskell file the entries of one
\* name yield one definition, no later than any of them; the start line of
\* such an entry is never reported as a usage; a ReScript type_declaration or
\* let_declaration that declares the query is a definition at its first line.
C9_NamedEntryIsADefinitionUpToCollapse ==
    Classified =>
        \A i \in DOMAIN files :
            /\ \A e \in NamedEntries(outlines[i], query) :
                  /\ files[i].lang # "Haskell"
                        => Result("definition", files[i], e.start_line) \in defs
                  /\ files[i].lang = "Haskell"
                        => /\ Cardinality(DefsIn(files[i])) = 1
                           /\ \A d \in DefsIn(files[i]) : d.line <= e.start_line
                  /\ Result("usage", files[i], e.start_line) \notin usages
            /\ \A n \in TopNodes(files[i]) :
                  (/\ files[i].lang = "ReScript"
                   /\ n.kind \in {"type_declaration", "let_declaration"}
                   /\ Declares(n, query))
                  => /\ Result("definition", files[i], n.srow + 1) \in defs
                     /\ Result("usage", files[i], n.srow + 1) \notin usages

\* C9 happens: a ReScript file whose type_declaration declares the query has
\* been searched, next to a Haskell file whose two entries collapsed.
C9_Witness ==
    /\ pc = "ranked"
    /\ \E i \in DOMAIN files :
          /\ files[i].lang = "ReScript"
          /\ \E n \in TopNodes(files[i]) :
                /\ n.kind = "type_declaration"
                /\ Declares(n, query)
                /\ Result("definition", files[i], n.srow + 1) \in defs
    /\ \E i \in DOMAIN files :
          /\ files[i].lang = "Haskell"
          /\ Cardinality(NamedEntries(outlines[i], query)) = 2
          /\ Cardinality(DefsIn(files[i])) = 1

\* The order the ranking is claimed to be.
StrictlyBefore(a, b) ==
    \/ a.class = "definition" /\ b.class = "usage"
    \/ /\ a.class = b.class
       /\ \/ Len(a.path) < Len(b.path)
          \/ /\ Len(a.path) = Len(b.path)
             /\ \/ LexLess(a.path, b.path)
                \/ a.path = b.path /\ a.line < b.line

MaxServers == 2
\* Number of consecutive runs of install on the same disk.
MaxRuns == 2

SUPPORTED_HOSTS == <<"claude-code", "cursor", "windsurf", "claude-desktop">>

\* Host arguments tried: the supported ones and two others.
Hosts == {"claude-code", "cursor", "windsurf", "claude-desktop", "vscode", "Cursor"}

Str(s) == [t |-> "str", s |-> s]
Arr(items) == [t |-> "arr", items |-> items]
Obj(map) == [t |-> "obj", map |-> map]
RawObj(members) == [t |-> "robj", members |-> members]
Member(k, v) == [k |-> k, v |-> v]

Ok(v) == [ok |-> TRUE, value |-> v]

\* json!({"command": "tilth", "args": ["--mcp"]})
TilthEntry == Obj(("command" :> Str("tilth")) @@ ("args" :> Arr(<<Str("--mcp")>>)))

RECURSIVE ParseValue(_)
\* The Value of a well-formed document; of a key written twice the last
\* member stays.
ParseValue(d) ==
    IF d.t = "robj"
    THEN LET keys == {d.members[i].k : i \in DOMAIN d.members}
             last(k) == CHOOSE i \in DOMAIN d.members :
                            /\ d.members[i].k = k
                            /\ \A j \in DOMAIN d.members : d.members[j].k = k => j <= i
         IN  Obj([k \in keys |-> ParseValue(d.members[last(k)].v)])
    ELSE d

\* A parser that reads a text it cannot parse as the empty object.
FromStrLenient(raw) ==
    IF raw.valid THEN Ok(ParseValue(raw.doc)) ELSE Ok(Obj(<<>>))

\* serde_json::from_str
FromStr(raw) ==
    IF raw.valid THEN Ok(ParseValue(raw.doc)) ELSE [ok |-> FALSE, error |-> raw.error]

\* The keys of the drawn documents, in the order of serde_json's Map.
SortedKeys == <<"args", "command", "mcpServers", "other", "theme", "tilth">>

RECURSIVE Unparse(_)
Unparse(v) ==
    IF v.t = "obj"
    THEN LET ks == SelectSeq(SortedKeys, LAMBDA k : k \in DOMAIN v.map)
         IN  RawObj([i \in DOMAIN ks |-> Member(ks[i], Unparse(v.map[ks[i]]))])
    ELSE v

\* serde_json::to_string_pretty
ToStringPretty(v) == [valid |-> TRUE, pretty |-> TRUE, doc |-> Unparse(v)]

\* An insertion that replaces the servers object by one holding tilth alone.
InsertTilthAlone(cfg) ==
    IF cfg.t # "obj" THEN [ok |-> FALSE, kind |-> "config root is not a JSON object"]
    ELSE Ok(Obj(("mcpServers" :> Obj("tilth" :> TilthEntry)) @@ cfg.map))

\* An insertion that takes a root or an mcpServers value that is not an
\* object for an empty object.
InsertTilthCoercing(cfg) ==
    LET root == IF cfg.t = "obj" THEN cfg.map ELSE <<>>
        servers == IF "mcpServers" \in DOMAIN root /\ root["mcpServers"].t = "obj"
                   THEN root["mcpServers"].map ELSE <<>>
    IN  Ok(Obj(("mcpServers" :> Obj(("tilth" :> TilthEntry) @@ servers)) @@ root))

\* run(), lines 22-35: the tilth entry goes under mcpServers of the root.
InsertTilth(cfg) ==
    IF cfg.t # "obj" THEN [ok |-> FALSE, kind |-> "config root is not a JSON object"]
    ELSE LET servers == IF "mcpServers" \in DOMAIN cfg.map
                        THEN cfg.map["mcpServers"] ELSE Obj(<<>>)
         IN  IF servers.t # "obj"
             THEN [ok |-> FALSE, kind |-> "mcpServers is not a JSON object"]
             ELSE Ok(Obj(("mcpServers" :> Obj(("tilth" :> TilthEntry) @@ servers.map))
                         @@ cfg.map))

\* claude_desktop_path, for the OS the binary was built for.
ClaudeDesktopPath(plat) ==
    CASE plat.os = "macos" ->
            IF plat.home THEN Ok("$HOME/Library/Application Support/Claude/claude_desktop_config.json")
            ELSE [ok |-> FALSE, kind |-> "HOME not set"]
      [] plat.os = "windows" ->
            IF plat.home THEN Ok("$APPDATA/Claude/claude_desktop_config.json")
            ELSE [ok |-> FALSE, kind |-> "APPDATA not set"]
      [] OTHER -> [ok |-> FALSE, kind |-> "claude-desktop config path unknown on this OS"]

UnknownHost(h) ==
    [ok |-> FALSE, kind |-> "unknown host", host |-> h, supported |-> SUPPORTED_HOSTS]

\* A resolver that sends every other host to the project's .mcp.json.
ConfigPathForDefault(h, plat) ==
    CASE h = "cursor" -> Ok(".cursor/mcp.json")
      [] h = "windsurf" -> Ok(".windsurf/mcp.json")
      [] h = "claude-desktop" -> ClaudeDesktopPath(plat)
      [] OTHER -> Ok(".mcp.json")

\* config_path_for
ConfigPathFor(h, plat) ==
    CASE h = "claude-code" -> Ok(".mcp.json")
      [] h = "cursor" -> Ok(".cursor/mcp.json")
      [] h = "windsurf" -> Ok(".windsurf/mcp.json")
      [] h = "claude-desktop" -> ClaudeDesktopPath(plat)
      [] OTHER -> UnknownHost(h)

\* Path::parent of the config paths.
Parent(p) ==
    CASE p = ".mcp.json" -> ""
      [] p = ".cursor/mcp.json" -> ".cursor"
      [] p = ".windsurf/mcp.json" -> ".windsurf"
      [] p = "$HOME/Library/Application Support/Claude/claude_desktop_config.json" ->
            "$HOME/Library/Application Support/Claude"
      [] p = "$APPDATA/Claude/claude_desktop_config.json" -> "$APPDATA/Claude"

\* fs::write that appends to the file it finds.
FsWriteAppend(d, out) ==
    IF d.file = <<>> THEN [d EXCEPT !.file = <<out>>]
    ELSE [d EXCEPT !.file = <<[valid |-> FALSE,
                               error |-> "trailing characters at line 2 column 1"]>>]

\* fs::write: the file holds `out` and nothing else.
FsWrite(d, out) == [d EXCEPT !.file = <<out>>]

\* The texts a config file is drawn from.
ServerMembers ==
    {Member("other", Str("srv")),
     Member("tilth", Unparse(TilthEntry)),
     Member("tilth", RawObj(<<Member("command", Str("/opt/tilth"))>>))}

ServerLists == UNION {[1..n -> ServerMembers] : n \in 0..MaxServers}

McpDocs == {RawObj(sl) : sl \in ServerLists} \cup {Str("none")}

RootDocs ==
    {RawObj(<<>>), RawObj(<<Member("theme", Str("dark"))>>), Arr(<<>>)}
    \cup UNION {{RawObj(<<Member("mcpServers", m)>>),
                 RawObj(<<Member("theme", Str("dark")), Member("mcpServers", m)>>),
                 RawObj(<<Member("mcpServers", m), Member("theme", Str("dark"))>>)} :
                m \in McpDocs}

ParserErrors == {"expected value at line 1 column 1",
                 "EOF while parsing an object at line 1 column 1"}

Texts ==
    {[valid |-> TRUE, pretty |-> pr, doc |-> d] : pr \in BOOLEAN, d \in RootDocs}
    \cup {[valid |-> FALSE, error |-> e] : e \in ParserErrors}

\* The config file (absent, or its text and whether this user may read and
\* write it) and its parent directory (present, absent, or not creatable).
Disks ==
    {[file |-> <<t>>, mode |-> m, dir |-> "present"] : t \in Texts, m \in {"rw", "r", "w"}}
    \cup {[file |-> <<>>, mode |-> "rw", dir |-> d] : d \in {"present", "absent", "blocked"}}

Platforms == {[os |-> o, home |-> h] : o \in {"linux", "macos", "windows"}, h \in BOOLEAN}

OutlineIdle ==
    /\ lang = "Rust"
    /\ content = <<>>
    /\ tree = RootOf(<<>>)
    /\ env = "ok"
    /\ path = "NoPath"
    /\ max_lines = 0
    /\ walked = <<>>
    /\ entries = <<>>
    /\ result = <<>>

SearchIdle ==
    /\ query = ""
    /\ files = <<>>
    /\ outlines = <<>>
    /\ defs = {}
    /\ usages = {}
    /\ ranked = <<>>

InstallInit ==
    /\ pc = "resolve"
    /\ OutlineIdle
    /\ SearchIdle
    /\ ImportIdle
    /\ hasher = 1
    /\ cursor = 0
    /\ out_lines = <<>>
    /\ pending = <<>>
    /\ sig_line = <<>>
    /\ sig_text = <<>>
    /\ earlier = <<>>
    /\ host \in Hosts
    /\ platform \in Platforms
    /\ disk \in Disks
    /\ LET r == ConfigPathFor(host, platform)
       IN  (r.ok /\ Parent(r.value) = "") => disk.dir = "present"
    /\ config_path = <<>>
    /\ config = <<>>
    /\ ret = <<>>
    /\ hist = [before |-> disk, ops |-> {}, rets |-> <<>>, after |-> <<>>]

installFrame == <<outlineVars, walked, entries, result, searchVars, importVars, callVars, sigVars, loopVars>>

\* run() returns r, the disk being d and the file operations done being o.
Return(r, d, o) ==
    /\ ret' = <<r>>
    /\ disk' = d
    /\ hist' = [hist EXCEPT !.ops = o, !.rets = Append(@, r), !.after = Append(@, d)]
    /\ pc' = "returned"

\* run(), line 10.
Resolve ==
    /\ pc = "resolve"
    /\ LET r == ConfigPathFor(host, platform)
       IN  IF r.ok
           THEN /\ config_path' = <<r.value>>
                /\ pc' = "load"
                /\ UNCHANGED <<disk, ret, hist>>
           ELSE /\ Return(r, disk, hist.ops)
                /\ UNCHANGED config_path
    /\ UNCHANGED <<host, platform, config, installFrame>>

\* run(), lines 12-20.
Load ==
    /\ pc = "load"
    /\ IF disk.file = <<>>
       THEN /\ config' = <<Obj(<<>>)>>
            /\ hist' = [hist EXCEPT !.ops = @ \cup {"exists"}]
            /\ pc' = "insert"
            /\ UNCHANGED <<disk, ret>>
       ELSE IF disk.mode = "w"
       THEN /\ Return([ok |-> FALSE, kind |-> "failed to read", path |-> config_path[1]],
                      disk, hist.ops \cup {"exists", "read"})
            /\ UNCHANGED config
       ELSE LET p == FromStr(disk.file[1])
            IN  IF p.ok
                THEN /\ config' = <<p.value>>
                     /\ hist' = [hist EXCEPT !.ops = @ \cup {"exists", "read"}]
                     /\ pc' = "insert"
                     /\ UNCHANGED <<disk, ret>>
                ELSE /\ Return([ok |-> FALSE, kind |-> "invalid JSON",
                                path |-> config_path[1], error |-> p.error],
                               disk, hist.ops \cup {"exists", "read"})
                     /\ UNCHANGED config
    /\ UNCHANGED <<host, platform, config_path, installFrame>>

\* run(), lines 22-35.
Insert ==
    /\ pc = "insert"
    /\ LET r == InsertTilth(config[1])
       IN  IF r.ok
           THEN /\ config' = <<r.value>>
                /\ pc' = "mkdir"
                /\ UNCHANGED <<disk, ret, hist>>
           ELSE /\ Return(r, disk, hist.ops)
                /\ UNCHANGED config
    /\ UNCHANGED <<host, platform, config_path, installFrame>>

\* run(), lines 37-40.
Mkdir ==
    /\ pc = "mkdir"
    /\ IF Parent(config_path[1]) = "" \/ disk.dir = "present"
       THEN /\ pc' = "write"
            /\ UNCHANGED <<disk, ret, hist>>
       ELSE IF disk.dir = "blocked"
       THEN Return([ok |-> FALSE, kind |-> "failed to create",
                    path |-> Parent(config_path[1])], disk, hist.ops \cup {"mkdir"})
       ELSE /\ disk' = [disk EXCEPT !.dir = "present"]
            /\ hist' = [hist EXCEPT !.ops = @ \cup {"mkdir"}]
            /\ pc' = "write"
            /\ UNCHANGED ret
    /\ UNCHANGED <<host, platform, config_path, config, installFrame>>

\* run(), lines 42-48.
Write ==
    /\ pc = "write"
    /\ IF disk.file # <<>> /\ disk.mode = "r"
       THEN Return([ok |-> FALSE, kind |-> "failed to write", path |-> config_path[1]],
                   disk, hist.ops \cup {"write"})
       ELSE Return([ok |-> TRUE], FsWrite(disk, ToStringPretty(config[1])),
                   hist.ops \cup {"write"})
    /\ UNCHANGED <<host, platform, config_path, config, installFrame>>

\* install is run once more, on the disk the run before left.
Rerun ==
    /\ pc = "returned"
    /\ Len(hist.rets) < MaxRuns
    /\ pc' = "resolve"
    /\ config_path' = <<>>
    /\ config' = <<>>
    /\ ret' = <<>>
    /\ hist' = [hist EXCEPT !.before = disk, !.ops = {}]
    /\ UNCHANGED <<host, platform, disk, installFrame>>

InstallNext == Resolve \/ Load \/ Insert \/ Mkdir \/ Write \/ Rerun

InstallSpec == InstallInit /\ [][InstallNext]_vars

(***************************************************************************)
(* Properties of install                                                   *)
(***************************************************************************)
Installing == pc \in {"resolve", "load", "insert", "mkdir", "write", "returned"}

\* What a well-formed config text says: its keys and their values.
Meaning(file) == ParseValue(file[1].doc)

\* C11: install is idempotent: when a run of install(host) succeeds, the next
\* run on the disk it left succeeds too and leaves the config file with the
\* same content.
C11_InstallIdempotent ==
    Installing =>
        \A i \in 1..(Len(hist.rets) - 1) :
            hist.rets[i].ok =>
                /\ hist.rets[i + 1].ok
                /\ hist.after[i + 1].file = hist.after[i].file

\* C11 happens: two runs have succeeded on a config that held another server.
C11_Witness ==
    /\ pc = "returned"
    /\ Len(hist.rets) = 2
    /\ hist.rets[1].ok
    /\ hist.rets[2].ok
    /\ hist.after[1].file = hist.after[2].file
    /\ "other" \in DOMAIN Meaning(disk.file).map["mcpServers"].map

\* After a successful run mcpServers holds a tilth entry.
HasTilth ==
    /\ disk.file # <<>>
    /\ disk.file[1].valid
    /\ Meaning(disk.file).t = "obj"
    /\ "mcpServers" \in DOMAIN Meaning(disk.file).map
    /\ Meaning(disk.file).map["mcpServers"].t = "obj"
    /\ "tilth" \in DOMAIN Meaning(disk.file).map["mcpServers"].map

\* The keys of the root other than mcpServers, and the entries under
\* mcpServers other than those named in `except`, are after the run what they
\* were before it.
Preserved(except) ==
    hist.before.file # <<>> =>
        LET old == Meaning(hist.before.file)
            new == Meaning(disk.file)
        IN  /\ \A k \in DOMAIN old.map \ {"mcpServers"} :
                  k \in DOMAIN new.map /\ new.map[k] = old.map[k]
            /\ ("mcpServers" \in DOMAIN old.map /\ old.map["mcpServers"].t = "obj") =>
                  \A e \in DOMAIN old.map["mcpServers"].map \ except :
                      /\ e \in DOMAIN new.map["mcpServers"].map
                      /\ new.map["mcpServers"].map[e] = old.map["mcpServers"].map[e]

C13_UnknownHostRejectedFirst ==
    /\ {SUPPORTED_HOSTS[i] : i \in DOMAIN SUPPORTED_HOSTS}
          = {"claude-code", "cursor", "windsurf", "claude-desktop"}
    /\ (/\ Installing
        /\ host \notin {"claude-code", "cursor", "windsurf", "claude-desktop"}
        /\ pc # "resolve")
       => /\ pc = "returned"
          /\ ret = <<[ok |-> FALSE, kind |-> "unknown host", host |-> host,
                      supported |-> <<"claude-code", "cursor", "windsurf",
                                      "claude-desktop">>]>>
          /\ hist.ops = {}
          /\ disk = hist.before

\* C13 happens: install has returned for the host vscode, a config file being
\* on the disk.
C13_Witness ==
    /\ pc = "returned"
    /\ host = "vscode"
    /\ ~ret[1].ok
    /\ disk.file # <<>>

\* C14: when the config file exists, can be read and is not valid JSON,
\* install returns the invalid-JSON error with the config path and the
\* parser's message, and the disk is as it was: nothing was written.
C14_MalformedConfigRejected ==
    (/\ pc = "returned"
     /\ config_path # <<>>
     /\ hist.before.file # <<>>
     /\ hist.before.mode # "w"
     /\ ~hist.before.file[1].valid)
    => /\ ret = <<[ok |-> FALSE, kind |-> "invalid JSON", path |-> config_path[1],
                   error |-> hist.before.file[1].error]>>
       /\ "write" \notin hist.ops
       /\ disk = hist.before

\* C14 happens: install has returned for cursor, whose config file is cut short.
C14_Witness ==
    /\ pc = "returned"
    /\ host = "cursor"
    /\ config_path = <<".cursor/mcp.json">>
    /\ disk.file = <<[valid |-> FALSE,
                      error |-> "EOF while parsing an object at line 1 column 1"]>>
    /\ ~ret[1].ok

(***************************************************************************)
(* extract_import_source and format_imports on drawn texts                 *)
(***************************************************************************)
\* Largest number of phrases of a drawn import text.
MaxPhrases == 4
\* Largest number of imports of a drawn group.
MaxGroup == 6

\* The phrases import texts are drawn from.
Phrases ==
    {<<"i", "m", "p", "o", "r", "t">>,
     <<"f", "r", "o", "m">>,
     <<"q", "u", "a", "l", "i", "f", "i", "e", "d">>,
     <<"D", "a", "t", "a", ".", "M", "a", "p">>,
     <<"i", "m", "p", "o", "r", "t", "l", "i", "b">>,
     <<"\"", "r", "x", "j", "s", "\"">>,
     <<"{", " ", "f", "r", "o", "m", " ", "}">>,
     <<"a", "s", " ", "T">>,
     <<"x">>,
     <<"u", "s", "e">>}

RECURSIVE JoinPhrases(_)
\* The phrases, one space between two of them.
JoinPhrases(ps) ==
    IF ps = <<>> THEN <<>>
    ELSE IF Len(ps) = 1 THEN ps[1]
    ELSE ps[1] \o <<" ">> \o JoinPhrases(Tail(ps))

ImportTexts == {JoinPhrases(ps) : ps \in UNION {[1..k -> Phrases] : k \in 0..MaxPhrases}}

\* The import texts a group is drawn from; their sources differ.
GroupTexts == {"use a::b;", "import A", "import qualified B as T", "Belt",
               "from os import path", "import x from \"react\""}

ImportInit ==
    /\ OutlineIdle
    /\ SearchIdle
    /\ InstallIdle
    /\ hasher = 1
    /\ cursor = 0
    /\ out_lines = <<>>
    /\ pending = <<>>
    /\ sig_line = <<>>
    /\ sig_text = <<>>
    /\ earlier = <<>>
    /\ source = <<>>
    /\ resource = <<>>
    /\ summary = <<>>
    /\ \/ /\ pc = "text"
          /\ import_text \in ImportTexts
          /\ group = <<>>
       \/ /\ pc = "group"
          /\ import_text = <<>>
          /\ group \in UNION {[1..k -> GroupTexts] : k \in 1..MaxGroup}

importFrame == <<outlineVars, walked, entries, result, searchVars, installVars, callVars, sigVars, loopVars>>

\* extract_import_source(text)
Extract ==
    /\ pc = "text"
    /\ source' = <<ExtractImportSource(import_text)>>
    /\ pc' = "extracted"
    /\ UNCHANGED <<import_text, resource, group, summary, importFrame>>

\* extract_import_source applied to the source it returned.
Reextract ==
    /\ pc = "extracted"
    /\ resource' = <<ExtractImportSource(source[1])>>
    /\ pc' = "reextracted"
    /\ UNCHANGED <<import_text, source, group, summary, importFrame>>

\* format_imports(&import_groups, entries.first()): the first entry of the
\* list is the first import of the group or an entry before it.
Summarise ==
    /\ pc = "group"
    /\ \E first \in {<<>>,
                     <<[kind |-> "Import", name |-> group[1], start_line |-> 2,
                        end_line |-> 2, signature |-> <<>>, children |-> <<>>,
                        doc |-> <<>>]>>} :
          summary' = <<FormatImports(group, first)>>
    /\ pc' = "summarised"
    /\ UNCHANGED <<import_text, source, resource, group, importFrame>>

ImportNext == Extract \/ Reextract \/ Summarise

ImportSpec == ImportInit /\ [][ImportNext]_vars

(***************************************************************************)
(* Properties of the import functions                                      *)
(***************************************************************************)
\* C15: extract_import_source applied to its own result returns that result.
C15_ExtractIdempotent ==
    pc = "reextracted" => resource = source

\* The text is `import <bindings> from "rxjs"`.
IsJsImport(txt) ==
    /\ StartsWith(txt, <<"i", "m", "p", "o", "r", "t", " ">>)
    /\ EndsWith(txt, <<" ", "f", "r", "o", "m", " ", "\"", "r", "x", "j", "s", "\"">>)
    /\ Len(txt) > 19

\* The text is `import [qualified] Data.Map [as T]`.
IsHaskellImport(txt) ==
    txt \in {<<"i", "m", "p", "o", "r", "t", " ", "D", "a", "t", "a", ".", "M", "a", "p">>,
             <<"i", "m", "p", "o", "r", "t", " ", "q", "u", "a", "l", "i", "f", "i", "e", "d", " ", "D", "a", "t", "a", ".", "M", "a", "p">>,
             <<"i", "m", "p", "o", "r", "t", " ", "D", "a", "t", "a", ".", "M", "a", "p", " ", "a", "s", " ", "T">>,
             <<"i", "m", "p", "o", "r", "t", " ", "q", "u", "a", "l", "i", "f", "i", "e", "d", " ", "D", "a", "t", "a", ".", "M", "a", "p", " ", "a", "s", " ", "T">>}

\* C16: for every text `import ... from "S"` the source is S without its
\* quotes, the Haskell rule never capturing it, and for every text
\* `import [qualified] M [as ...]` with M uppercase and no ` from ` it is M.
C16_HaskellRuleBeforeGenericImport ==
    pc \in {"extracted", "reextracted"} =>
        /\ IsJsImport(import_text) => source = <<<<"r", "x", "j", "s">>>>
        /\ IsHaskellImport(import_text) => source = <<<<"D", "a", "t", "a", ".", "M", "a", "p">>>>

\* The sources of the group, import by import.
GroupSources == [i \in DOMAIN group |-> ExtractImportSource(Bytes(group[i]))]

FirstIndex(src) == CHOOSE i \in DOMAIN GroupSources :
                       /\ GroupSources[i] = src
                       /\ \A j \in DOMAIN GroupSources : GroupSources[j] = src => i <= j

Occurrences(src) == Cardinality({i \in DOMAIN GroupSources : GroupSources[i] = src})

DistinctSources == {GroupSources[i] : i \in DOMAIN GroupSources}

\* C17: the summary shows each distinct source once, in first-occurrence
\* order, with its count n exactly when n >= 2, at most 5 of them (the first
\* 5), and carries the `, ... (N total)` suffix exactly when the group has
\* more than 5 sources.
C17_SummaryOfDistinctSources ==
    pc = "summarised" =>
        LET parts == summary[1].parts
        IN  /\ \A i \in DOMAIN parts : parts[i].src \in DistinctSources
            /\ \A i \in DOMAIN parts : \A j \in DOMAIN parts :
                  i < j => FirstIndex(parts[i].src) < FirstIndex(parts[j].src)
            /\ \A i \in DOMAIN parts :
                  parts[i].count = IF Occurrences(parts[i].src) >= 2
                                   THEN <<Occurrences(parts[i].src)>> ELSE <<>>
            /\ Len(parts) = IF Cardinality(DistinctSources) < 5
                            THEN Cardinality(DistinctSources) ELSE 5
            /\ \A src \in DistinctSources :
                  (\E i \in DOMAIN parts : parts[i].src = src)
                  \/ Cardinality({o \in DistinctSources : FirstIndex(o) < FirstIndex(src)}) >= 5
            /\ (summary[1].suffix # <<>>) <=> (Cardinality(DistinctSources) > 5)

(***************************************************************************)
(* Properties of the child collectors                                      *)
(***************************************************************************)
\* The node kinds collect_jsx_recursive turns into entries.
JsxKinds == {"jsx_element", "jsx_self_closing_element", "jsx_fragment"}

RECURSIVE KindsBelow(_)
\* The kinds of the nodes collect_jsx_recursive visits below the node.
KindsBelow(n) ==
    UNION {{n.kids[i].kind} \cup KindsBelow(n.kids[i]) : i \in DOMAIN n.kids}

\* The node holds a JSX element somewhere inside it.
HoldsJsx(n) == KindsBelow(n) \cap JsxKinds # {}

\* The i-th child of the root is a ReScript let_declaration binding a
\* function, right after a decorator whose text contains @react.component.
IsReactComponent(i) ==
    /\ lang = "ReScript"
    /\ tree.kids[i].kind = "let_declaration"
    /\ RescriptLetIsFunction(tree.kids[i])
    /\ i > 1
    /\ tree.kids[i - 1].kind = "decorator"
    /\ tree.kids[i - 1].text \in ReactComponentTexts

\* The top-level entries made from the i-th child of the root.
EntriesAt(i) ==
    {j \in DOMAIN walked : /\ walked[j].start_line = tree.kids[i].srow + 1
                            /\ walked[j].end_line = tree.kids[i].erow + 1}

\* The entry has a JSX entry among its children.
HasJsxChild(e) == \E k \in DOMAIN e.children : e.children[k].kind = "Property"

\* C18: an entry has JSX-subtree children exactly when it is made, in a
\* ReScript source, from a function-binding let_declaration whose immediately
\* preceding sibling is a decorator containing @react.component; with another
\* decorator, a sibling in between, or another language no entry outside a
\* JSX subtree has a JSX child.
C18_JsxChildrenOnlyForReactComponents ==
    (pc # "start" /\ ~NeedsFallback(lang, env)) =>
        /\ \A i \in DOMAIN tree.kids :
              IsReactComponent(i) =>
                  /\ EntriesAt(i) # {}
                  /\ \A j \in EntriesAt(i) :
                        /\ walked[j].kind = "Function"
                        /\ walked[j].children = CollectJsxChildren(tree.kids[i], content)
                        /\ \A k \in DOMAIN walked[j].children :
                              walked[j].children[k].kind = "Property"
                        /\ HoldsJsx(tree.kids[i]) => HasJsxChild(walked[j])
        /\ \A e \in Descendants(walked) :
              HasJsxChild(e) =>
                  \/ e.kind = "Property"
                  \/ \E i \in DOMAIN tree.kids :
                        /\ IsReactComponent(i)
                        /\ \E j \in EntriesAt(i) : walked[j] = e

\* C18 happens: one ReScript source has been walked in which a component got
\* its JSX children and a function under another decorator, or cut off from
\* its decorator, got none although it holds JSX.
C18_Witness ==
    /\ pc = "done"
    /\ lang = "ReScript"
    /\ \E i \in DOMAIN tree.kids :
          /\ IsReactComponent(i)
          /\ \E j \in EntriesAt(i) : Len(walked[j].children) > 0
    /\ \E i \in DOMAIN tree.kids :
          /\ ~IsReactComponent(i)
          /\ tree.kids[i].kind = "let_declaration"
          /\ HoldsJsx(tree.kids[i])
          /\ i > 1
          /\ tree.kids[i - 1].kind \in {"decorator", "comment"}
          /\ \E j \in EntriesAt(i) : walked[j].children = <<>>

\* The kinds whose entries collect children from their node.
ContainerKinds == {"Class", "Struct", "Module"}

\* No child of a container entry of the list, at any depth, has a child that
\* is not a JSX entry.
NestingBounded(es) ==
    \A p \in Descendants(es) :
        p.kind \in ContainerKinds =>
            \A k \in DOMAIN p.children :
                \A g \in DOMAIN p.children[k].children :
                    p.children[k].children[g].kind = "Property"

\* C19 as stated: in the entry tree outline() renders, the synthetic ReScript
\* file module included, a child of a container entry has no children other
\* than JSX entries.
C19_NestingBoundedInRenderedTree ==
    (pc \in {"wrapped", "done"}) => NestingBounded(entries)

\* C19: in the entries walk_top_level returns, a child of a container entry
\* has no children other than JSX entries; the tree outline() renders is that
\* list, or for ReScript one synthetic Module entry holding that list as its
\* children, which puts one more level above it.
C19_NestingBoundedBelowFileModule ==
    /\ (pc # "start" /\ ~NeedsFallback(lang, env)) => NestingBounded(walked)
    /\ (pc \in {"wrapped", "done"}) =>
          \/ entries = walked
          \/ /\ lang = "ReScript"
             /\ Len(entries) = 1
             /\ entries[1].kind = "Module"
             /\ entries[1].children = walked

\* C19 happens: a ReScript source with a module declaration has been wrapped
\* in the file module, so that a container entry with a child of its own sits
\* under a container entry.
C19_Witness ==
    /\ pc = "done"
    /\ lang = "ReScript"
    /\ Len(entries) = 1
    /\ entries[1].children = walked
    /\ \E j \in DOMAIN walked :
          /\ walked[j].kind \in ContainerKinds
          /\ walked[j].children # <<>>
          /\ \A k \in DOMAIN walked[j].children : walked[j].children[k].children = <<>>

(***************************************************************************)
(* Two calls of outline() with the same arguments                          *)
(***************************************************************************)
\* The RandomState values a HashMap may be built with.
Seeds == {1, 2}

\* outline() is called again with the arguments of the call that returned;
\* the HashMap this call builds gets a RandomState of its own.
Recall ==
    /\ pc = "done"
    /\ earlier = <<>>
    /\ earlier' = <<result>>
    /\ hasher' \in Seeds
    /\ pc' = "start"
    /\ walked' = <<>>
    /\ entries' = <<>>
    /\ result' = <<>>
    /\ UNCHANGED <<outlineVars, searchVars, installVars, importVars, loopVars, sigVars>>

DetNext == Fallback \/ Walk \/ Wrap \/ Render \/ Recall

DetSpec == Init /\ [][DetNext]_vars

\* The second call has returned.
Returned == pc = "done" /\ earlier # <<>>

\* The imports summary blocks of a rendered outline.
ImportSummaries(out) ==
    {i \in DOMAIN out : out[i].label = "imports"}

C21_NoFileModuleWithoutEntries ==
    (pc \in {"wrapped", "done"} /\ lang = "ReScript" /\ ~NeedsFallback(lang, env)
        /\ walked = <<>>) => entries = <<>>

(***************************************************************************)
(* The loop of format_entries, one entry at a time                         *)
(***************************************************************************)
\* The flush that drops the buffered imports.
FlushDropped(out, import_groups, first) == out

\* format_entries: push the summary of the buffered imports, if there are any.
Flush(out, import_groups, first) ==
    IF import_groups # <<>>
    THEN Append(out, FormatImports(import_groups, first))
    ELSE out

\* entries.first()
FirstEntry == IF entries = <<>> THEN <<>> ELSE <<entries[1]>>

\* The loop has an entry left and has not reached the cap.
Looping ==
    /\ pc = "loop"
    /\ cursor <= Len(entries)
    /\ Len(out_lines) < max_lines

\* format_entries is entered with empty `out` and `import_groups`.
Enter ==
    /\ pc = "wrapped"
    /\ pc' = "loop"
    /\ cursor' = 1
    /\ out_lines' = <<>>
    /\ pending' = <<>>
    /\ UNCHANGED <<outlineVars, searchVars, installVars, importVars, callVars, sigVars,
                   walked, entries, result>>

\* An Import entry is buffered.
Buffer ==
    /\ Looping
    /\ entries[cursor].kind = "Import"
    /\ pending' = Append(pending, entries[cursor].name)
    /\ cursor' = cursor + 1
    /\ UNCHANGED <<outlineVars, searchVars, installVars, importVars, callVars, sigVars,
                   walked, entries, result, pc, out_lines>>

\* Any other entry: the buffered imports are flushed, then the entry and its
\* children are pushed.
Emit ==
    /\ Looping
    /\ entries[cursor].kind # "Import"
    /\ out_lines' = PushChildren(entries[cursor].children, 1, max_lines,
                                 Append(Flush(out_lines, pending, FirstEntry),
                                        FormatEntry(entries[cursor], 0)))
    /\ pending' = <<>>
    /\ cursor' = cursor + 1
    /\ UNCHANGED <<outlineVars, searchVars, installVars, importVars, callVars, sigVars,
                   walked, entries, result, pc>>

\* The loop ends or breaks on the cap; trailing imports are flushed and the
\* lines are joined.
Finish ==
    /\ pc = "loop"
    /\ ~Looping
    /\ out_lines' = Flush(out_lines, pending, FirstEntry)
    /\ result' = out_lines'
    /\ pc' = "done"
    /\ UNCHANGED <<outlineVars, searchVars, installVars, importVars, callVars, sigVars,
                   walked, entries, cursor, pending>>

LoopNext == Fallback \/ Walk \/ Wrap \/ Enter \/ Buffer \/ Emit \/ Finish

LoopSpec == Init /\ [][LoopNext]_vars

\* The Import entries among the entries the loop has passed.
ImportsPassed == {i \in 1..(cursor - 1) : entries[i].kind = "Import"}

RECURSIVE SumCounts(_, _)
\* The imports the parts i.. of a summary stand for.
SumCounts(parts, i) ==
    IF i > Len(parts) THEN 0
    ELSE (IF parts[i].count = <<>> THEN 1 ELSE parts[i].count[1])
         + SumCounts(parts, i + 1)

RECURSIVE Summarised(_, _)
\* The imports the summary lines i.. of `out` stand for.
Summarised(out, i) ==
    IF i > Len(out) THEN 0
    ELSE (IF out[i].label = "imports" THEN SumCounts(out[i].parts, 1) ELSE 0)
         + Summarised(out, i + 1)

\* The loop stopped on the cap with entries left.
StoppedByCap ==
    pc = "done" /\ cursor >= 1 /\ cursor <= Len(entries)

\* C22: every Import entry the loop of format_entries has buffered is in an
\* imports summary line of the result, also when the loop stops on the
\* max_lines cap: while the loop runs each import passed is either buffered or
\* summarised, the buffer is only non-empty below the cap, and the flush after
\* the loop emits what is left in it.  The result is the one format_entries
\* computes.
C22_BufferedImportsFlushed ==
    /\ (pc = "loop") =>
          /\ Summarised(out_lines, 1) + Len(pending) = Cardinality(ImportsPassed)
          /\ pending # <<>> => Len(out_lines) < max_lines
    /\ (pc = "done" /\ cursor >= 1) =>
          /\ Summarised(result, 1) = Cardinality(ImportsPassed)
          /\ pending # <<>> =>
                /\ result[Len(result)].label = "imports"
                /\ SumCounts(result[Len(result)].parts, 1) = Len(pending)
          /\ result = FormatEntries(entries, content, max_lines)

\* C22 happens: the loop stopped on the cap with entries left after it had
\* buffered imports, and the result carries their summary line.
C22_Witness ==
    /\ StoppedByCap
    /\ ImportsPassed # {}
    /\ \E i \in DOMAIN result : result[i].label = "imports"

(***************************************************************************)
(* Properties of the top-level walk and of the mapper                      *)
(***************************************************************************)
\* The node kinds walk_top_level looks through for Haskell.
TransparentWrappers == {"declarations", "imports"}

RECURSIVE PlacesFrom(_, _)
\* The places <<parent, index>> of the nodes that count as top-level, from the
\* i-th child of the root on: for Haskell the children of a wrapper stand in
\* for the wrapper, in any other language every child of the root stands for
\* itself.
PlacesFrom(root, i) ==
    IF i > Len(root.kids) THEN <<>>
    ELSE (IF lang = "Haskell" /\ root.kids[i].kind \in TransparentWrappers
          THEN [k \in DOMAIN root.kids[i].kids |-> <<root.kids[i], k>>]
          ELSE <<<<root, i>>>>)
         \o PlacesFrom(root, i + 1)

RECURSIVE EntriesOfPlaces(_, _)
\* The entries of the places k.. in their order, each mapped at depth 0.
EntriesOfPlaces(places, k) ==
    IF k > Len(places) THEN <<>>
    ELSE NodeToEntry(places[k][1], places[k][2], content, lang, 0)
         \o EntriesOfPlaces(places, k + 1)

\* The i-th child of the root is a wrapper with a child that maps to an entry.
WrapperWithEntries(i) ==
    /\ tree.kids[i].kind \in TransparentWrappers
    /\ \E k \in DOMAIN tree.kids[i].kids :
          KindNameSignature(tree.kids[i].kids[k], content, lang) # <<>>

\* C23: the walk returns, in document order, the entries of the children of
\* the root; for Haskell the direct children of a root-level `declarations`
\* or `imports` node take the place of that node, one level only (a wrapper
\* inside a wrapper is mapped like any node), and a wrapper yields no entry
\* of its own; in every other language a node of these kinds is mapped like
\* any node and its children are not looked at.
C23_HaskellWrappersTransparent ==
    (pc # "start" /\ ~NeedsFallback(lang, env)) =>
        /\ walked = EntriesOfPlaces(PlacesFrom(tree, 1), 1)
        /\ \A i \in DOMAIN tree.kids :
              tree.kids[i].kind \in TransparentWrappers =>
                  /\ KindNameSignature(tree.kids[i], content, lang) = <<>>
                  /\ \A e \in Descendants(walked) :
                        /\ lang # "Haskell" =>
                              ~(/\ e.start_line >= tree.kids[i].srow + 1
                                /\ e.end_line <= tree.kids[i].erow + 1)
                        /\ \A k \in DOMAIN tree.kids[i].kids :
                              tree.kids[i].kids[k].kind \in TransparentWrappers =>
                                  ~(/\ e.start_line >= tree.kids[i].kids[k].srow + 1
                                    /\ e.end_line <= tree.kids[i].kids[k].erow + 1)

\* C23 happens: a Haskell source with a wrapper inside a wrapper has been
\* walked, and the outer wrapper's own binding is among the entries.
C23_Witness ==
    /\ pc = "done"
    /\ lang = "Haskell"
    /\ ~NeedsFallback(lang, env)
    /\ walked # <<>>
    /\ \E i \in DOMAIN tree.kids :
          /\ WrapperWithEntries(i)
          /\ \E k \in DOMAIN tree.kids[i].kids :
                tree.kids[i].kids[k].kind \in TransparentWrappers

\* C24: an interface_declaration node is mapped to an entry of kind Interface
\* and a type_alias_declaration node to an entry of kind TypeAlias.
C24_InterfaceAndTypeAliasKinds ==
    (pc # "start" /\ ~NeedsFallback(lang, env)) =>
        \A i \in DOMAIN tree.kids :
            /\ tree.kids[i].kind = "interface_declaration" =>
                  /\ EntriesAt(i) # {}
                  /\ \A j \in EntriesAt(i) : walked[j].kind = "Interface"
            /\ tree.kids[i].kind = "type_alias_declaration" =>
                  /\ EntriesAt(i) # {}
                  /\ \A j \in EntriesAt(i) : walked[j].kind = "TypeAlias"

(***************************************************************************)
(* extract_signature on the characters of the start-row line               *)
(***************************************************************************)
\* The length above which extract_signature shortens a line.
SignatureLimit == 120

\* The bytes extract_signature keeps in front of the ellipsis.
SignatureKeep == 117

\* How many blanks a drawn line has in front of its text.
MaxSigPad == 1

\* crate::types::truncate_str on ASCII text: the first n bytes.
TruncateStr(s, n) == IF Len(s) <= n THEN s ELSE SubSeq(s, 1, n)

\* extract_signature, given the line at the node's start row if there is one.
ExtractSignatureText(line) ==
    IF line = <<>> THEN <<>>
    ELSE LET t == Trim(line[1])
             pos == Find(t, <<"{">>)
         IN  IF pos # <<>> THEN Trim(SubSeq(t, 1, pos[1]))
             ELSE IF EndsWith(t, <<":">>) THEN Trim(SubSeq(t, 1, Len(t) - 1))
             ELSE IF Len(t) > SignatureLimit
                  THEN TruncateStr(t, SignatureKeep) \o <<".", ".", ".">>
                  ELSE t

\* n copies of the character c.
Repeat(c, n) == [i \in 1..n |-> c]

\* The lengths of the drawn declaration heads: short ones and those around
\* the limit.
SigLengths == (0..2) \cup ((SignatureLimit - 3)..(SignatureLimit + 2))

\* What follows the declaration head on its line.
SigTails == {<<>>, <<"{">>, <<" ", "{">>, <<"{", " ", "x">>, <<":">>, <<":", " ">>,
             <<":", "x">>, <<":", "{">>}

\* The drawn start-row lines.
SigLines ==
    {Repeat(" ", p) \o Repeat("a", n) \o t : p \in 0..MaxSigPad, n \in SigLengths,
                                             t \in SigTails}

SigInit ==
    /\ OutlineIdle
    /\ SearchIdle
    /\ InstallIdle
    /\ ImportIdle
    /\ hasher = 1
    /\ earlier = <<>>
    /\ cursor = 0
    /\ out_lines = <<>>
    /\ pending = <<>>
    /\ pc = "line"
    /\ sig_line \in {<<>>} \cup {<<l>> : l \in SigLines}
    /\ sig_text = <<>>

\* extract_signature is called.
Sign ==
    /\ pc = "line"
    /\ sig_text' = <<ExtractSignatureText(sig_line)>>
    /\ pc' = "signed"
    /\ UNCHANGED <<outlineVars, walked, entries, result, searchVars, installVars,
                   importVars, callVars, loopVars, sig_line>>

SigNext == Sign

SigSpec == SigInit /\ [][SigNext]_vars

\* C25: the signature is the trimmed start-row line cut before its first `{`,
\* else cut before its trailing `:`, else shortened with an ellipsis, and in
\* every case it has at most 120 characters.
C25_SignatureAtMostLimit ==
    (pc = "signed" /\ sig_line # <<>>) =>
        LET t == Trim(sig_line[1])
            sig == sig_text[1]
        IN  /\ Contains(t, <<"{">>) => sig = Trim(SubSeq(t, 1, Find(t, <<"{">>)[1]))
            /\ (~Contains(t, <<"{">>) /\ EndsWith(t, <<":">>)) =>
                  sig = Trim(SubSeq(t, 1, Len(t) - 1))
            /\ Len(sig) <= SignatureLimit

(***************************************************************************)
(* Properties of the JSX collector                                         *)
(***************************************************************************)
RECURSIVE NearestJsx(_)
\* The JSX nodes below n with no JSX node between them and n.
NearestJsx(n) ==
    UNION {IF n.kids[i].kind \in JsxKinds THEN {n.kids[i]} ELSE NearestJsx(n.kids[i])
           : i \in DOMAIN n.kids}

\* The lines an entry made from the node spans.
SpanOf(n) == <<n.srow + 1, n.erow + 1>>

RECURSIVE JsxEntriesMatch(_, _)
\* The entries are, in document order, one Property entry for each nearest
\* JSX node below n; the entry of a self-closing element has no children and
\* the children of any other match the node it was made from in the same way.
JsxEntriesMatch(es, n) ==
    /\ Len(es) = Cardinality(NearestJsx(n))
    /\ \A k \in DOMAIN es : es[k].kind = "Property"
    /\ \A k \in DOMAIN es : \A j \in DOMAIN es :
          k < j => \/ es[k].start_line < es[j].start_line
                   \/ es[k].start_line = es[j].start_line /\ es[k].end_line <= es[j].end_line
    /\ \A m \in NearestJsx(n) :
          \E k \in DOMAIN es :
              /\ <<es[k].start_line, es[k].end_line>> = SpanOf(m)
              /\ IF m.kind = "jsx_self_closing_element"
                 THEN es[k].children = <<>>
                 ELSE JsxEntriesMatch(es[k].children, m)

\* C26: the children of a component are exactly the JSX collection of its
\* node: only Property entries, in document order, one for each JSX node of
\* the subtree that is not inside a self-closing element, each under the entry
\* of its nearest enclosing JSX node or, without one, under the component; an
\* entry made from a self-closing element has no children.
C26_JsxCollectorShape ==
    (pc # "start" /\ ~NeedsFallback(lang, env)) =>
        \A i \in DOMAIN tree.kids :
            IsReactComponent(i) =>
                \A j \in EntriesAt(i) : JsxEntriesMatch(walked[j].children, tree.kids[i])

\* C26 happens: a component whose JSX has two siblings in a fragment, an
\* element below an expression and an element inside a self-closing element
\* has been walked.
C26_Witness ==
    /\ pc = "done"
    /\ \E i \in DOMAIN tree.kids :
          /\ IsReactComponent(i)
          /\ \E j \in EntriesAt(i) :
                /\ Len(walked[j].children) = 1
                /\ Len(walked[j].children[1].children) = 3
                /\ walked[j].children[1].children[2].children # <<>>
                /\ walked[j].children[1].children[3].children = <<>>
          /\ \E m \in NearestJsx(tree.kids[i]) :
                \E c \in NearestJsx(m) :
                    c.kind = "jsx_self_closing_element" /\ KindsBelow(c) \cap JsxKinds # {}

(***************************************************************************)
(* Properties of the renderer                                              *)
(***************************************************************************)
RECURSIVE WithDepth(_, _)
\* Every entry of the list, at any depth, paired with its nesting level.
WithDepth(es, d) ==
    UNION {{<<es[i], d>>} \cup WithDepth(es[i].children, d + 1) : i \in DOMAIN es}

\* The block format_entry makes of the entry is in the output at the level.
RenderedAt(e, d) ==
    \E i \in DOMAIN result : result[i] = FormatEntry(e, d)

\* The renderer returned without reaching the cap.
BelowCap == pc = "done" /\ ~NeedsFallback(lang, env) /\ Len(result) < max_lines

\* C27: when the cap is not reached, every entry of the tree is rendered, at
\* the indent of its nesting level (two spaces per level), grandchildren
\* included; top-level imports are rendered by their summary line.
C27_EveryEntryRenderedAtItsDepth ==
    BelowCap =>
        \A p \in WithDepth(entries, 0) :
            (p[2] = 0 /\ p[1].kind = "Import") \/ RenderedAt(p[1], p[2])

MisshapenConfig ==
    /\ hist.before.file # <<>>
    /\ hist.before.mode # "w"
    /\ hist.before.file[1].valid
    /\ LET old == Meaning(hist.before.file)
       IN  \/ old.t # "obj"
           \/ "mcpServers" \in DOMAIN old.map /\ old.map["mcpServers"].t # "obj"

\* C29: when the config parses but its root or its mcpServers value is not an
\* object, install returns an error; and whenever install returns an error
\* before its final write, the config file holds what it held before the run.
C29_ErrorsLeaveFileUnchanged ==
    (pc = "returned") =>
        /\ (MisshapenConfig /\ ConfigPathFor(host, platform).ok) =>
              /\ ~ret[1].ok
              /\ ret[1].kind \in {"config root is not a JSON object",
                                  "mcpServers is not a JSON object"}
              /\ "write" \notin hist.ops
        /\ (~ret[1].ok /\ "write" \notin hist.ops) => disk.file = hist.before.file

\* C29 happens: install has refused a config whose mcpServers is a string and
\* the file is as it was.
C29_Witness ==
    /\ pc = "returned"
    /\ MisshapenConfig
    /\ ~ret[1].ok
    /\ ret[1].kind = "mcpServers is not a JSON object"
    /\ disk.file = hist.before.file

(***************************************************************************)
(* Imports below the top level                                             *)
(***************************************************************************)
\* The Import entries below the top level, at any depth.
ChildImports ==
    {e \in UNION {Descendants(entries[i].children) : i \in DOMAIN entries} :
        e.kind = "Import"}

\* The entry has a line of its own in the output: an `import` line with its
\* range and its name.
OwnImportLine(e) ==
    \E i \in DOMAIN result :
        /\ result[i].label = "import"
        /\ result[i].name = e.name
        /\ result[i].start = e.start_line
        /\ result[i].end = e.end_line

\* The imports summary lines stand for top-level Import entries only, and each
\* carries the start line of the first top-level entry.
SummariesAreTopLevel ==
    /\ Summarised(result, 1) = Cardinality({i \in DOMAIN entries : entries[i].kind = "Import"})
    /\ \A i \in ImportSummaries(result) : result[i].start = entries[1].start_line

\* The ReScript wrap of outline() has put the entries under a file module.
Wrapped ==
    lang = "ReScript" /\ Stem(path) # <<>>

\* C30: import grouping applies to top-level entries only.  Every imports
\* summary line carries the start line of the first top-level entry and the
\* summary lines stand for top-level Import entries, never for an Import below
\* the top level: a ReScript file under its file module has no summary line at
\* all.  When the max_lines cap is not reached, every Import entry below the
\* top level (such as every `open` entry under the file module) has an
\* `import` line of its own and the summary lines stand for exactly the
\* top-level Import entries.
C30_ChildImportsRenderedAlone ==
    (pc = "done" /\ ~NeedsFallback(lang, env)) =>
        /\ \A i \in ImportSummaries(result) : result[i].start = entries[1].start_line
        /\ Summarised(result, 1)
              <= Cardinality({i \in DOMAIN entries : entries[i].kind = "Import"})
        /\ Wrapped => ImportSummaries(result) = {}
        /\ BelowCap =>
              /\ \A e \in ChildImports : OwnImportLine(e)
              /\ SummariesAreTopLevel

\* C30 happens: an outline below the cap holds both a summary line for
\* top-level imports and the `import` line of an import inside a class.
C30_Witness ==
    /\ BelowCap
    /\ ImportSummaries(result) # {}
    /\ \E e \in ChildImports : OwnImportLine(e)
    /\ entries[1].kind # "Import"

\* C30 as claimed: every Import entry below the top level has an `import`
\* line of its own in the outline, none is counted in a summary line, and every
\* summary line carries the start line of the first top-level entry.
C30_ChildImportsAlwaysRendered ==
    (pc = "done" /\ ~NeedsFallback(lang, env)) =>
        /\ \A e \in ChildImports : OwnImportLine(e)
        /\ Summarised(result, 1)
              <= Cardinality({i \in DOMAIN entries : entries[i].kind = "Import"})
        /\ \A i \in ImportSummaries(result) : result[i].start = entries[1].start_line

====
